---- MODULE Spec2Model ----
(***************************************************************************)
(* A model of kysely-typegen's schema-normalization and code-generation    *)
(* pipeline: the CHECK-constraint parsers, the type mappers, the table     *)
(* filter, the column / table / database builders of both back-ends and   *)
(* the serializer.                                                         *)
(*                                                                         *)
(* Strings whose characters the code inspects (names, glob patterns, value *)
(* lists) are sequences of one-character strings.  An optional value is    *)
(* the empty sequence (undefined) or a one-element sequence.               *)
(***************************************************************************)
EXTENDS Integers, Sequences, FiniteSets, TLC

VARIABLES
  \* filterTables called on its own
  tables,          \* the TableMetadata[] argument
  options,         \* the TransformOptions argument (optional)
  filtered,        \* the returned array (optional: not yet called)
  \* one column through both column builders
  column,          \* the ColumnMetadata
  enums,           \* the EnumMetadata[] of the run
  colOptions,      \* the options the builders are given
  property,        \* transformColumn's PropertyNode (optional)
  colUnknown,      \* the unknownTypes set handed to transformColumn
  zodProperty,     \* transformColumnToZod's ZodPropertyNode (optional)
  zodMode,         \* the mode transformColumnToZod was called with
  \* the constraint normalizer
  definition,      \* the text the dialect's front end captured
  parsed,          \* the parser's result (optional: not yet called)
  parser,          \* which entry point produced it
  \* transformDatabase followed by serialize
  metadata,        \* the DatabaseMetadata argument
  dbOptions,       \* the TransformOptions argument
  pc,              \* the position inside transformDatabase
  declarations,    \* the declarations pushed so far
  unknownTypes,    \* the run's Set<string>, in insertion order
  filteredTables,  \* filterTables' result inside the run
  tableInterfaces, \* the table interfaces built so far
  warnings,        \* the returned warnings
  output,          \* serialize(program) (optional)
  runs,            \* completed runs on this input
  firstResult,     \* (output, warnings) of the first completed run (optional)
  zodProgram,      \* transformDatabaseToZod's ZodProgramNode (optional)
  zodOutput,       \* serializeZod(zodProgram) (optional)
  zodRuns,         \* completed runs of the validation-schema pipeline
  firstZodOutput,  \* the output of its first run (optional)
  \* the serializers of both back-ends on one value
  serInput,        \* the literal value, TypeNode or property name handed over
  serText,         \* the type serializer's text (optional)
  serZodText,      \* the validation-schema serializer's text (optional)
  \* one invocation of the command line
  cliOptions,      \* the options generate is called with
  database,        \* what the connection and the introspection will yield
  cliPc,           \* the position inside generate
  connected,       \* whether a connection to the database was opened
  code,            \* serialize(astProgram) (optional: not yet generated)
  outFile,         \* the content of the file at the output path (optional: no file)
  stdout,          \* what was written to the standard output
  exitStatus,       \* the exit status of the process (optional: still running)
  \* independent runs of the two pipelines, their steps interleaved
  runInputs,       \* for each run: the pipeline, the metadata and the options
  frames,          \* for each run: its position and the locals of its call
  heap             \* the Set and EnumNameResolver objects allocated so far

filterVars == <<tables, options, filtered>>
columnVars == <<column, enums, colOptions, property, colUnknown, zodProperty, zodMode>>
parseVars == <<definition, parsed, parser>>
dbVars == <<metadata, dbOptions, pc, declarations, unknownTypes, filteredTables,
            tableInterfaces, warnings, output, runs, firstResult, zodProgram,
            zodOutput, zodRuns, firstZodOutput>>
serializeVars == <<serInput, serText, serZodText>>
cliVars == <<cliOptions, database, cliPc, connected, code, outFile, stdout, exitStatus>>
runVars == <<runInputs, frames, heap>>
vars == <<filterVars, columnVars, parseVars, dbVars, serializeVars, cliVars, runVars>>

-----------------------------------------------------------------------------
(* Optional values and small helpers *)

Undefined == <<>>
Some(v) == <<v>>
IsDefined(o) == o # <<>>
Get(o) == o[1]

Range(s) == {s[i] : i \in 1..Len(s)}

RECURSIVE Flatten(_)
Flatten(ss) == IF ss = <<>> THEN <<>> ELSE Head(ss) \o Flatten(Tail(ss))

EndsWith(s, suffix) ==
  /\ Len(s) >= Len(suffix)
  /\ SubSeq(s, Len(s) - Len(suffix) + 1, Len(s)) = suffix

SeqsUpTo(S, n) == UNION {[1..k -> S] : k \in 0..n}

-----------------------------------------------------------------------------
(* Characters *)

LowerLetters == <<"a","b","c","d","e","f","g","h","i","j","k","l","m",
                  "n","o","p","q","r","s","t","u","v","w","x","y","z">>
UpperLetters == <<"A","B","C","D","E","F","G","H","I","J","K","L","M",
                  "N","O","P","Q","R","S","T","U","V","W","X","Y","Z">>

ToUpperChar(c) ==
  IF \E i \in 1..Len(LowerLetters) : LowerLetters[i] = c
  THEN UpperLetters[CHOOSE i \in 1..Len(LowerLetters) : LowerLetters[i] = c]
  ELSE c

ToLowerChar(c) ==
  IF \E i \in 1..Len(UpperLetters) : UpperLetters[i] = c
  THEN LowerLetters[CHOOSE i \in 1..Len(UpperLetters) : UpperLetters[i] = c]
  ELSE c

ToLowerCase(s) == [i \in 1..Len(s) |-> ToLowerChar(s[i])]

\* str.split(sep): the pieces between the separators, empty pieces kept
RECURSIVE SplitFrom(_, _, _)
SplitFrom(s, sep, cur) ==
  IF s = <<>> THEN <<cur>>
  ELSE IF Head(s) = sep THEN <<cur>> \o SplitFrom(Tail(s), sep, <<>>)
  ELSE SplitFrom(Tail(s), sep, Append(cur, Head(s)))

Split(s, sep) == SplitFrom(s, sep, <<>>)

-----------------------------------------------------------------------------
(* transform/utils *)

PascalWord(word) ==
  IF word = <<>> THEN <<>>
  ELSE <<ToUpperChar(word[1])>> \o ToLowerCase(Tail(word))

toPascalCase(str) ==
  LET words == Split(str, "_")
  IN Flatten([i \in 1..Len(words) |-> PascalWord(words[i])])

singularize(str) ==
  IF EndsWith(str, <<"s">>) THEN SubSeq(str, 1, Len(str) - 1) ELSE str

\* Kysely's CamelCasePlugin.camelCase: the first character is kept, every
\* underscore after it is dropped and the character after one is upper-cased
RECURSIVE CamelFrom(_, _)
CamelFrom(str, i) ==
  IF i > Len(str) THEN <<>>
  ELSE IF str[i] = "_" THEN CamelFrom(str, i + 1)
  ELSE IF str[i - 1] = "_" THEN <<ToUpperChar(str[i])>> \o CamelFrom(str, i + 1)
  ELSE <<str[i]>> \o CamelFrom(str, i + 1)

toCamelCase(str) ==
  IF str = <<>> THEN str ELSE <<str[1]>> \o CamelFrom(str, 2)

-----------------------------------------------------------------------------
(* transform/filter *)

\* one glob pattern against one string: literal characters and the star,
\* which stands for any run of characters of a `schema.table` string
RECURSIVE GlobMatch(_, _)
GlobMatch(p, s) ==
  IF p = <<>> THEN s = <<>>
  ELSE IF Head(p) = "*"
    THEN GlobMatch(Tail(p), s) \/ (s # <<>> /\ GlobMatch(p, Tail(s)))
  ELSE s # <<>> /\ Head(s) = Head(p) /\ GlobMatch(Tail(p), Tail(s))

\* micromatch.isMatch(str, patterns): some pattern of the list matches
isMatch(str, patterns) == \E i \in 1..Len(patterns) : GlobMatch(patterns[i], str)

tablePattern(table) == table.schema \o <<".">> \o table.name

\* the include pass run before the exclude pass
keepTableIncludeFirst(table, opts) ==
  IF /\ IsDefined(opts.includePattern)
     /\ Len(Get(opts.includePattern)) > 0
     /\ isMatch(tablePattern(table), Get(opts.includePattern))
  THEN TRUE
  ELSE IF /\ IsDefined(opts.excludePattern)
          /\ Len(Get(opts.excludePattern)) > 0
          /\ isMatch(tablePattern(table), Get(opts.excludePattern))
  THEN FALSE
  ELSE ~(IsDefined(opts.includePattern) /\ Len(Get(opts.includePattern)) > 0)

keepTable(table, opts) ==
  IF /\ IsDefined(opts.excludePattern)
     /\ Len(Get(opts.excludePattern)) > 0
     /\ isMatch(tablePattern(table), Get(opts.excludePattern))
  THEN FALSE
  ELSE IF IsDefined(opts.includePattern) /\ Len(Get(opts.includePattern)) > 0
  THEN isMatch(tablePattern(table), Get(opts.includePattern))
  ELSE TRUE

filterTables(tbls, opts) ==
  IF \/ ~IsDefined(opts)
     \/ (~IsDefined(Get(opts).includePattern) /\ ~IsDefined(Get(opts).excludePattern))
  THEN tbls
  ELSE SelectSeq(tbls, LAMBDA t : keepTable(t, Get(opts)))

-----------------------------------------------------------------------------
(* utils/check-constraint-parser: the shared value-list classifiers *)

Digits == <<"0","1","2","3","4","5","6","7","8","9">>
IsDigit(c) == \E i \in 1..Len(Digits) : Digits[i] = c
DigitValue(c) == (CHOOSE i \in 1..Len(Digits) : Digits[i] = c) - 1
IsSpace(c) == c \in {" ", "\t", "\n", "\r"}
IsLetter(c) ==
  \E i \in 1..Len(LowerLetters) : LowerLetters[i] = c \/ UpperLetters[i] = c
IsWord(c) == IsLetter(c) \/ IsDigit(c) \/ c = "_"

Null == [type |-> "null"]

\* the character classes of the regular expressions: \s, \w, [^)], [^']
InClass(c, class) ==
  CASE class = "space" -> IsSpace(c)
    [] class = "word" -> IsWord(c)
    [] class = "notCloseParen" -> c # ")"
    [] class = "notQuote" -> c # "'"

\* the last index of the longest run of characters of a class that starts
\* at i (i - 1 when the run is empty)
RunEnd(s, i, class) ==
  CHOOSE j \in (i - 1)..Len(s) :
    /\ \A k \in i..j : InClass(s[k], class)
    /\ (j = Len(s) \/ ~InClass(s[j + 1], class))

StartsWithAt(s, i, lit) ==
  /\ i >= 1
  /\ i + Len(lit) - 1 <= Len(s)
  /\ SubSeq(s, i, i + Len(lit) - 1) = lit

\* s.includes(lit)
Includes(s, lit) == \E i \in 1..Len(s) : StartsWithAt(s, i, lit)

Trim(s) ==
  LET a == RunEnd(s, 1, "space") + 1
  IN IF a > Len(s) THEN <<>>
     ELSE SubSeq(s, a, CHOOSE b \in a..Len(s) :
                         /\ ~IsSpace(s[b])
                         /\ \A k \in (b + 1)..Len(s) : IsSpace(s[k]))

\* /^-?\d+$/ on a trimmed piece
IsInteger(t) ==
  LET d == IF t # <<>> /\ t[1] = "-" THEN Tail(t) ELSE t
  IN d # <<>> /\ \A k \in 1..Len(d) : IsDigit(d[k])

RECURSIVE DigitsValue(_, _)
DigitsValue(d, acc) ==
  IF d = <<>> THEN acc ELSE DigitsValue(Tail(d), 10 * acc + DigitValue(Head(d)))

\* parseInt(t, 10) of a piece that IsInteger accepts
parseInt(t) ==
  IF t[1] = "-" THEN 0 - DigitsValue(Tail(t), 0) ELSE DigitsValue(t, 0)

\* /^\s*-?\d+(\s*,\s*-?\d+)*\s*$/: every comma-separated piece is an integer
\* with optional white space around it
isNumericList(arrayContent) ==
  LET pieces == Split(arrayContent, ",")
  IN \A k \in 1..Len(pieces) : IsInteger(Trim(pieces[k]))

\* the numbers of the list, or Undefined for the code's null
parseNumericArray(arrayContent) ==
  IF ~isNumericList(arrayContent) THEN Undefined
  ELSE LET pieces == Split(arrayContent, ",")
       IN Some([k \in 1..Len(pieces) |-> parseInt(Trim(pieces[k]))])

\* the hand-rolled scanner: i is the index, cur the value being read
RECURSIVE ScanStrings(_, _, _, _, _)
ScanStrings(s, i, inQuote, cur, values) ==
  IF i > Len(s) THEN values
  ELSE IF s[i] = "'" /\ ~inQuote THEN ScanStrings(s, i + 1, TRUE, cur, values)
  ELSE IF s[i] = "'" /\ inQuote
    THEN IF i + 1 <= Len(s) /\ s[i + 1] = "'"
         THEN ScanStrings(s, i + 2, inQuote, Append(cur, "'"), values)
         ELSE ScanStrings(s, i + 1, FALSE, <<>>, Append(values, cur))
  ELSE IF inQuote THEN ScanStrings(s, i + 1, inQuote, Append(cur, s[i]), values)
  ELSE ScanStrings(s, i + 1, inQuote, cur, values)

parseStringArray(arrayContent) ==
  LET values == ScanStrings(arrayContent, 1, FALSE, <<>>, <<>>)
  IN IF Len(values) > 0 THEN Some(values) ELSE Undefined

\* the pair compared in the order written, without sorting it
isBooleanPatternOrdered(values) ==
  Len(values) = 2 /\ values[1] = 0 /\ values[2] = 1

isBooleanPattern(values) ==
  /\ Len(values) = 2
  /\ LET lo == IF values[1] <= values[2] THEN values[1] ELSE values[2]
         hi == IF values[1] <= values[2] THEN values[2] ELSE values[1]
     IN lo = 0 /\ hi = 1

Min(S) == CHOOSE m \in S : \A n \in S : m <= n
Max(S) == CHOOSE m \in S : \A n \in S : m >= n

IsCastChar(c) == IsWord(c) \/ c = "[" \/ c = "]"

\* `IN\s*\(([^)]+)\)` (case-insensitive) at index i: the captured list
InListAt(s, i) ==
  IF ~(i + 1 <= Len(s) /\ s[i] \in {"I", "i"} /\ s[i + 1] \in {"N", "n"})
  THEN Undefined
  ELSE LET open == RunEnd(s, i + 2, "space") + 1
           close == RunEnd(s, open + 1, "notCloseParen") + 1
       IN IF /\ open <= Len(s) /\ s[open] = "("
             /\ close <= Len(s) /\ close > open + 1
          THEN Some(SubSeq(s, open + 1, close - 1))
          ELSE Undefined

\* the first (leftmost) match of a pattern, at[i] being its match at start i
FirstMatch(at) ==
  LET starts == {i \in DOMAIN at : IsDefined(at[i])}
  IN IF starts = {} THEN Undefined ELSE at[Min(starts)]

-----------------------------------------------------------------------------
(* SQLite: parseSqliteCheckConstraint *)

\* SQLITE_IN_REGEX = /\w+\s+IN\s*\(([^)]+)\)/i at index i
SqliteInAt(s, i) ==
  IF ~IsWord(s[i]) THEN Undefined
  ELSE LET w == RunEnd(s, i, "word")
           sp == RunEnd(s, w + 1, "space")
       IN IF sp > w THEN InListAt(s, sp + 1) ELSE Undefined

parseSqliteCheckConstraint(def) ==
  LET match == FirstMatch([i \in 1..Len(def) |-> SqliteInAt(def, i)])
  IN IF ~IsDefined(match) THEN Null
     ELSE IF Trim(Get(match)) = <<>> THEN Null
     ELSE IF IsDefined(parseNumericArray(Get(match)))
       THEN IF isBooleanPattern(Get(parseNumericArray(Get(match))))
            THEN [type |-> "boolean"]
            ELSE [type |-> "number", values |-> Get(parseNumericArray(Get(match)))]
     ELSE IF IsDefined(parseStringArray(Get(match)))
       THEN [type |-> "string", values |-> Get(parseStringArray(Get(match)))]
     ELSE Null

-----------------------------------------------------------------------------
(* MSSQL: parseMssqlCheckConstraint *)

\* MSSQL_IN_REGEX = /\[\w+\]\s+IN\s*\(([^)]+)\)/i at index i
MssqlInAt(s, i) ==
  IF s[i] # "[" THEN Undefined
  ELSE LET w == RunEnd(s, i + 1, "word")
           sp == RunEnd(s, w + 2, "space")
       IN IF w > i /\ w + 1 <= Len(s) /\ s[w + 1] = "]" /\ sp > w + 1
          THEN InListAt(s, sp + 1)
          ELSE Undefined

\* ((?:[^']|'')*): the text is a run of items, each a character other than
\* a quote or a doubled quote
RECURSIVE IsQuotedBody(_)
IsQuotedBody(b) ==
  IF b = <<>> THEN TRUE
  ELSE IF b[1] # "'" THEN IsQuotedBody(Tail(b))
  ELSE Len(b) >= 2 /\ b[2] = "'" /\ IsQuotedBody(SubSeq(b, 3, Len(b)))

\* /\[\w+\]='((?:[^']|'')*)'/g at index i: [end of the match, captured text];
\* the greedy body takes the longest text a closing quote follows
MssqlEqAt(s, i) ==
  IF s[i] # "[" THEN Undefined
  ELSE LET w == RunEnd(s, i + 1, "word")
           closes == {j \in (w + 4)..Len(s) :
                        s[j] = "'" /\ IsQuotedBody(SubSeq(s, w + 4, j - 1))}
       IN IF w > i /\ StartsWithAt(s, w + 1, <<"]", "=", "'">>) /\ closes # {}
          THEN Some([end |-> Max(closes), text |-> SubSeq(s, w + 4, Max(closes) - 1)])
          ELSE Undefined

\* value.replace(/''/g, "'")
RECURSIVE Unescape(_)
Unescape(v) ==
  IF v = <<>> THEN <<>>
  ELSE IF Len(v) >= 2 /\ v[1] = "'" /\ v[2] = "'" THEN <<"'">> \o Unescape(SubSeq(v, 3, Len(v)))
  ELSE <<Head(v)>> \o Unescape(Tail(v))

\* the exec loop of the global regular expression from index `from`
RECURSIVE ExecMssqlEq(_, _)
ExecMssqlEq(s, from) ==
  LET starts == {i \in from..Len(s) : IsDefined(MssqlEqAt(s, i))}
  IN IF starts = {} THEN <<>>
     ELSE LET m == Get(MssqlEqAt(s, Min(starts)))
          IN <<Unescape(m.text)>> \o ExecMssqlEq(s, m.end + 1)

parseMssqlOrChain(def) ==
  LET values == ExecMssqlEq(def, 1)
  IN IF Len(values) > 0 THEN Some(values) ELSE Undefined

s_OR == <<" ", "O", "R", " ">>

MssqlOrPart(def) ==
  IF Includes(def, s_OR) /\ IsDefined(parseMssqlOrChain(def))
  THEN [type |-> "string", values |-> Get(parseMssqlOrChain(def))]
  ELSE Null

parseMssqlCheckConstraint(def) ==
  IF Trim(def) = <<>> THEN Null
  ELSE LET inMatch == FirstMatch([i \in 1..Len(def) |-> MssqlInAt(def, i)])
       IN IF ~IsDefined(inMatch) THEN MssqlOrPart(def)
          ELSE IF Trim(Get(inMatch)) = <<>> THEN Null
          ELSE IF IsDefined(parseNumericArray(Get(inMatch)))
            THEN IF isBooleanPattern(Get(parseNumericArray(Get(inMatch))))
                 THEN [type |-> "boolean"]
                 ELSE [type |-> "number", values |-> Get(parseNumericArray(Get(inMatch)))]
          ELSE IF IsDefined(parseStringArray(Get(inMatch)))
            THEN [type |-> "string", values |-> Get(parseStringArray(Get(inMatch)))]
          ELSE MssqlOrPart(def)

-----------------------------------------------------------------------------
(* Postgres: parseCheckConstraint *)

s_eqAny == <<"=", " ", "A", "N", "Y", " ", "(">>
s_ARRAY == <<"A", "R", "R", "A", "Y", "[">>
s_eqQuote == <<"=", " ", "'">>
s_cast == <<":", ":">>
NotNewline(c) == c \notin {"\n", "\r"}

\* `\)?(?:::[\w\[\]]+)?\)` matches at index t
AnyArrayTailAt(s, t) ==
  \E t1 \in {t} \cup {u \in {t + 1} : t <= Len(s) /\ s[t] = ")"} :
    \E t2 \in {t1} \cup {u \in (t1 + 3)..(Len(s) + 1) :
                           /\ StartsWithAt(s, t1, s_cast)
                           /\ \A k \in (t1 + 2)..(u - 1) : IsCastChar(s[k])} :
      t2 <= Len(s) /\ s[t2] = ")"

\* ANY_ARRAY_REGEX = /= ANY \(\(?ARRAY\[(.*?)\]\)?(?:::[\w\[\]]+)?\)/ at index
\* i: the lazily captured array content
AnyArrayAt(s, i) ==
  IF ~StartsWithAt(s, i, s_eqAny) THEN Undefined
  ELSE LET a == IF i + 7 <= Len(s) /\ s[i + 7] = "(" THEN i + 8 ELSE i + 7
           k == a + 6
           ends == {e \in (k - 1)..(Len(s) - 1) :
                      /\ s[e + 1] = "]"
                      /\ \A x \in k..e : NotNewline(s[x])
                      /\ AnyArrayTailAt(s, e + 2)}
       IN IF StartsWithAt(s, a, s_ARRAY) /\ ends # {}
          THEN Some(SubSeq(s, k, Min(ends)))
          ELSE Undefined

\* singleValueRegex = /\([^)]+= '([^']+)'(?:::[\w]+)?\)/g at index i: [end of
\* the match, captured value]; the greedy [^)]+ takes the last `= '` that
\* lets the rest match
OrValueEnd(s, q) ==
  LET vend == RunEnd(s, q + 3, "notQuote")
      after == vend + 2
      cend == RunEnd(s, after + 2, "word")
  IN IF ~(vend >= q + 3 /\ vend + 1 <= Len(s)) THEN 0
     ELSE IF after <= Len(s) /\ s[after] = ")" THEN after
     ELSE IF /\ StartsWithAt(s, after, s_cast) /\ cend >= after + 2
             /\ cend + 1 <= Len(s) /\ s[cend + 1] = ")"
       THEN cend + 1
     ELSE 0

OrValueAt(s, i) ==
  IF s[i] # "(" THEN Undefined
  ELSE LET limit == RunEnd(s, i + 1, "notCloseParen")
           qs == {q \in (i + 2)..(limit + 1) :
                    StartsWithAt(s, q, s_eqQuote) /\ OrValueEnd(s, q) > 0}
       IN IF qs = {} THEN Undefined
          ELSE Some([end |-> OrValueEnd(s, Max(qs)),
                     text |-> SubSeq(s, Max(qs) + 3, RunEnd(s, Max(qs) + 3, "notQuote"))])

RECURSIVE ExecOrValue(_, _)
ExecOrValue(s, from) ==
  LET starts == {i \in from..Len(s) : IsDefined(OrValueAt(s, i))}
  IN IF starts = {} THEN <<>>
     ELSE LET m == Get(OrValueAt(s, Min(starts)))
          IN <<Unescape(m.text)>> \o ExecOrValue(s, m.end + 1)

parseOrChain(def) ==
  IF ~Includes(def, s_OR) THEN Undefined
  ELSE LET values == ExecOrValue(def, 1)
       IN IF Len(values) > 0 THEN Some(values) ELSE Undefined

PostgresOrPart(def) ==
  IF IsDefined(parseOrChain(def))
  THEN [type |-> "string", values |-> Get(parseOrChain(def))]
  ELSE Null

parseCheckConstraint(def) ==
  LET anyArrayMatch == FirstMatch([i \in 1..Len(def) |-> AnyArrayAt(def, i)])
  IN IF ~IsDefined(anyArrayMatch) THEN PostgresOrPart(def)
     ELSE IF Trim(Get(anyArrayMatch)) = <<>> THEN Null
     ELSE IF IsDefined(parseNumericArray(Get(anyArrayMatch)))
       THEN [type |-> "number", values |-> Get(parseNumericArray(Get(anyArrayMatch)))]
     ELSE IF IsDefined(parseStringArray(Get(anyArrayMatch)))
       THEN [type |-> "string", values |-> Get(parseStringArray(Get(anyArrayMatch)))]
     ELSE PostgresOrPart(def)

-----------------------------------------------------------------------------
(* MySQL: parseMysqlCheckConstraint.  The entry point is not among the       *)
(* sources; it is modelled from the specification's description: an optional *)
(* backtick-quoted or bare column identifier, IN (...), the charset escape   *)
(* in front of a string literal stripped, the shared classifiers, and the    *)
(* column name returned beside the constraint.                               *)

\* the backtick character (the one character a string literal cannot hold)
Backtick == "backtick"

\* the backslash of each \' removed
RECURSIVE StripEscapes(_)
StripEscapes(v) ==
  IF v = <<>> THEN <<>>
  ELSE IF Len(v) >= 2 /\ v[1] = "\\" /\ v[2] = "'" THEN StripEscapes(Tail(v))
  ELSE <<Head(v)>> \o StripEscapes(Tail(v))

\* [`]?(\w+)[`]?\s+IN\s*\(([^)]+)\) at index i: [columnName, list]
MysqlInAt(s, i) ==
  LET a == IF s[i] = Backtick THEN i + 1 ELSE i
      w == RunEnd(s, a, "word")
      b == IF w + 1 <= Len(s) /\ s[w + 1] = Backtick THEN w + 1 ELSE w
      sp == RunEnd(s, b + 1, "space")
  IN IF w >= a /\ sp > b /\ IsDefined(InListAt(s, sp + 1))
     THEN Some([columnName |-> SubSeq(s, a, w), list |-> Get(InListAt(s, sp + 1))])
     ELSE Undefined

MysqlConstraint(valuesPart) ==
  IF Trim(valuesPart) = <<>> THEN Null
  ELSE IF IsDefined(parseNumericArray(valuesPart))
    THEN IF isBooleanPattern(Get(parseNumericArray(valuesPart)))
         THEN [type |-> "boolean"]
         ELSE [type |-> "number", values |-> Get(parseNumericArray(valuesPart))]
  ELSE IF IsDefined(parseStringArray(StripEscapes(valuesPart)))
    THEN [type |-> "string", values |-> Get(parseStringArray(StripEscapes(valuesPart)))]
  ELSE Null

parseMysqlCheckConstraint(def) ==
  LET match == FirstMatch([i \in 1..Len(def) |-> MysqlInAt(def, i)])
  IN IF ~IsDefined(match) THEN Null
     ELSE IF MysqlConstraint(Get(match).list) = Null THEN Null
     ELSE [type |-> "mysql", columnName |-> Get(match).columnName,
           constraint |-> MysqlConstraint(Get(match).list)]

-----------------------------------------------------------------------------
(* Names used by the inputs *)

s_public == <<"p","u","b","l","i","c">>
s_auth == <<"a","u","t","h">>
s_users == <<"u","s","e","r","s">>
s_posts == <<"p","o","s","t","s">>
s_sessions == <<"s","e","s","s","i","o","n","s">>
s_internal_logs == <<"i","n","t","e","r","n","a","l","_","l","o","g","s">>
s_users_p == <<"u","s","e","r","s","_","p">>

p_internal == <<"*","i","n","t","e","r","n","a","l","*">>
p_public_user == <<"p","u","b","l","i","c",".","u","s","e","r","*">>
p_public_all == <<"p","u","b","l","i","c",".","*">>

Table(schema, name, isPartition, columns) ==
  [schema |-> schema, name |-> name, isPartition |-> isPartition, columns |-> columns]

Options(camelCase, includePattern, excludePattern) ==
  [camelCase |-> camelCase, includePattern |-> includePattern,
   excludePattern |-> excludePattern]

\* sequences of pairwise different elements of S, of length at most n
DistinctSeqs(S, n) == {s \in SeqsUpTo(S, n) : \A i, j \in 1..Len(s) : s[i] = s[j] => i = j}

-----------------------------------------------------------------------------
(* ast/nodes: the TypeNode constructors *)

Primitive(value) == [kind |-> "primitive", value |-> value]
Reference(name) == [kind |-> "reference", name |-> name]
Union(types) == [kind |-> "union", types |-> types]
ArrayNode(elementType) == [kind |-> "array", elementType |-> elementType]
Generic(name, typeArguments) ==
  [kind |-> "generic", name |-> name, typeArguments |-> typeArguments]
\* a literal's value is a string or a number
Literal(value) == [kind |-> "literal", value |-> value]
StringValue(s) == [string |-> s]
NumberValue(n) == [number |-> n]

NullType == Primitive("null")

-----------------------------------------------------------------------------
(* dialects/postgres/type-mapper *)

t_int2 == <<"i","n","t","2">>
t_int4 == <<"i","n","t","4">>
t_smallint == <<"s","m","a","l","l","i","n","t">>
t_integer == <<"i","n","t","e","g","e","r">>
t_int8 == <<"i","n","t","8">>
t_bigint == <<"b","i","g","i","n","t">>
t_float4 == <<"f","l","o","a","t","4">>
t_float8 == <<"f","l","o","a","t","8">>
t_real == <<"r","e","a","l">>
t_double_precision == <<"d","o","u","b","l","e"," ","p","r","e","c","i","s","i","o","n">>
t_numeric == <<"n","u","m","e","r","i","c">>
t_decimal == <<"d","e","c","i","m","a","l">>
t_varchar == <<"v","a","r","c","h","a","r">>
t_char == <<"c","h","a","r">>
t_text == <<"t","e","x","t">>
t_citext == <<"c","i","t","e","x","t">>
t_uuid == <<"u","u","i","d">>
t_bool == <<"b","o","o","l">>
t_boolean == <<"b","o","o","l","e","a","n">>
t_timestamp == <<"t","i","m","e","s","t","a","m","p">>
t_timestamptz == <<"t","i","m","e","s","t","a","m","p","t","z">>
t_date == <<"d","a","t","e">>
t_time == <<"t","i","m","e">>
t_timetz == <<"t","i","m","e","t","z">>
t_interval == <<"i","n","t","e","r","v","a","l">>
t_money == <<"m","o","n","e","y">>
t_json == <<"j","s","o","n">>
t_jsonb == <<"j","s","o","n","b">>
t_bytea == <<"b","y","t","e","a">>
t_int4range == <<"i","n","t","4","r","a","n","g","e">>
t_int8range == <<"i","n","t","8","r","a","n","g","e">>
t_numrange == <<"n","u","m","r","a","n","g","e">>
t_daterange == <<"d","a","t","e","r","a","n","g","e">>
t_tsrange == <<"t","s","r","a","n","g","e">>
t_tstzrange == <<"t","s","t","z","r","a","n","g","e">>
t_point == <<"p","o","i","n","t">>
t_circle == <<"c","i","r","c","l","e">>

s_brackets == <<"[", "]">>
s_JsonValue == <<"J","s","o","n","V","a","l","u","e">>
s_IPostgresInterval == <<"I","P","o","s","t","g","r","e","s","I","n","t","e","r","v","a","l">>

createColumnType(selectType, insertType, updateType) ==
  Generic("ColumnType",
          <<selectType>>
            \o (IF IsDefined(insertType)
                THEN <<Get(insertType)>>
                       \o (IF IsDefined(updateType) THEN <<Get(updateType)>> ELSE <<>>)
                ELSE <<>>))

\* Set.prototype.add on a set kept in insertion order, with one entry for
\* every value added however often
SetAddRepeating(set, value) == Append(set, value)

\* Set.prototype.add on a set kept in insertion order
SetAdd(set, value) == IF value \in Range(set) THEN set ELSE Append(set, value)

\* the switch of mapPostgresType: the base type of a recognized name,
\* undefined in the default case
postgresBaseType(dataType) ==
  CASE dataType \in {t_int2, t_int4, t_smallint, t_integer} -> Some(Primitive("number"))
    [] dataType \in {t_int8, t_bigint} ->
         Some(createColumnType(
                Primitive("string"),
                Some(Union(<<Primitive("string"), Primitive("number"), Primitive("bigint")>>)),
                Some(Union(<<Primitive("string"), Primitive("number"), Primitive("bigint")>>))))
    [] dataType \in {t_float4, t_float8, t_real, t_double_precision} ->
         Some(Primitive("number"))
    [] dataType \in {t_numeric, t_decimal} ->
         Some(createColumnType(
                Primitive("string"),
                Some(Union(<<Primitive("number"), Primitive("string")>>)),
                Some(Union(<<Primitive("number"), Primitive("string")>>))))
    [] dataType \in {t_varchar, t_char, t_text, t_citext, t_uuid} ->
         Some(Primitive("string"))
    [] dataType \in {t_bool, t_boolean} -> Some(Primitive("boolean"))
    [] dataType \in {t_timestamp, t_timestamptz, t_date} ->
         Some(createColumnType(
                Primitive("Date"),
                Some(Union(<<Primitive("Date"), Primitive("string")>>)),
                Some(Union(<<Primitive("Date"), Primitive("string")>>))))
    [] dataType \in {t_time, t_timetz} -> Some(Primitive("string"))
    [] dataType = t_interval ->
         Some(createColumnType(
                Reference(s_IPostgresInterval),
                Some(Union(<<Reference(s_IPostgresInterval), Primitive("string")>>)),
                Some(Union(<<Reference(s_IPostgresInterval), Primitive("string")>>))))
    [] dataType = t_money -> Some(Primitive("string"))
    [] dataType \in {t_json, t_jsonb} -> Some(Reference(s_JsonValue))
    [] dataType = t_bytea -> Some(Primitive("Buffer"))
    [] dataType \in {t_int4range, t_int8range, t_numrange, t_daterange,
                     t_tsrange, t_tstzrange} -> Some(Primitive("string"))
    [] OTHER -> Undefined

\* the options of the element's mapping, taken over from the array's
arrayElementOptionsInherited(opts) == [opts EXCEPT !.isArray = FALSE]

\* the options mapPostgresType maps an array's element with
arrayElementOptions(opts) ==
  [isNullable |-> FALSE, isArray |-> FALSE, unknownTypes |-> opts.unknownTypes]

\* every primitive element taken for a simple one
isSimpleAnyPrimitive(elementType) == elementType.kind = "primitive"

\* const isSimple = ...
isSimple(elementType) ==
  /\ elementType.kind = "primitive"
  /\ elementType.value \in {"boolean", "number", "string"}

\* mapPostgresType(dataType, options): the TypeNode, and options.unknownTypes
\* as the call leaves it
RECURSIVE mapPostgresType(_, _)
mapPostgresType(dataType, opts) ==
  IF opts.isArray \/ EndsWith(dataType, s_brackets)
  THEN LET baseTypeName == IF EndsWith(dataType, s_brackets)
                           THEN SubSeq(dataType, 1, Len(dataType) - 2)
                           ELSE dataType
           element == mapPostgresType(baseTypeName, arrayElementOptions(opts))
           elementType == element.type
           arrayType == IF isSimple(elementType) THEN ArrayNode(elementType)
                        ELSE Generic("ArrayType", <<elementType>>)
       IN [type |-> IF opts.isNullable THEN Union(<<arrayType, NullType>>)
                    ELSE arrayType,
           unknownTypes |-> element.unknownTypes]
  ELSE LET known == postgresBaseType(dataType)
           baseType == IF IsDefined(known) THEN Get(known) ELSE Primitive("unknown")
       IN [type |-> IF opts.isNullable THEN Union(<<baseType, NullType>>)
                    ELSE baseType,
           unknownTypes |-> IF IsDefined(known) THEN opts.unknownTypes
                            ELSE SetAdd(opts.unknownTypes, dataType)]

-----------------------------------------------------------------------------
(* transform/enum *)

\* EnumNameResolver.getName: the enum's pascal-cased name, prefixed with its
\* pascal-cased schema unless that is the default schema
getName(enum) ==
  IF enum.schema = s_public THEN toPascalCase(enum.name)
  ELSE toPascalCase(enum.schema) \o toPascalCase(enum.name)

transformEnum(enumMetadata) ==
  [kind |-> "typeAlias",
   name |-> getName(enumMetadata),
   type |-> Union([i \in 1..Len(enumMetadata.values) |->
                     Literal(StringValue(enumMetadata.values[i]))]),
   exported |-> TRUE]

-----------------------------------------------------------------------------
(* transform/table *)

\* enums.find(...): the first enum the column's (dataTypeSchema, dataType)
\* identifies
matchingEnum(col, enumList) ==
  LET schema == IF IsDefined(col.dataTypeSchema) THEN Get(col.dataTypeSchema)
                ELSE s_public
      hits == {i \in 1..Len(enumList) :
                 enumList[i].name = col.dataType /\ enumList[i].schema = schema}
  IN IF hits = {} THEN Undefined ELSE Some(enumList[Min(hits)])

\* the reference name derived again from the column's type name
enumTypeNameRederived(enum) == toPascalCase(enum.name)

\* enumResolver.getName(matchingEnum)
enumTypeName(enum) == getName(enum)

\* the literal types of a string or number constraint
literalTypes(checkConstraint) ==
  [i \in 1..Len(checkConstraint.values) |->
     Literal(IF checkConstraint.type = "string"
             THEN StringValue(checkConstraint.values[i])
             ELSE NumberValue(checkConstraint.values[i]))]

\* the type of a column with the CHECK constraint looked at before the enums
columnTypeConstraintFirst(col, enumList, unknown) ==
  IF IsDefined(col.checkConstraint)
  THEN [type |-> IF Get(col.checkConstraint).type = "boolean"
                 THEN IF col.isNullable
                      THEN Union(<<Primitive("boolean"), NullType>>)
                      ELSE Primitive("boolean")
                 ELSE Union(literalTypes(Get(col.checkConstraint))
                              \o (IF col.isNullable THEN <<NullType>> ELSE <<>>)),
        unknownTypes |-> unknown]
  ELSE IF IsDefined(matchingEnum(col, enumList))
  THEN [type |-> IF col.isNullable
                 THEN Union(<<Reference(enumTypeName(Get(matchingEnum(col, enumList)))),
                              NullType>>)
                 ELSE Reference(enumTypeName(Get(matchingEnum(col, enumList)))),
        unknownTypes |-> unknown]
  ELSE mapPostgresType(col.dataType,
                       [isNullable |-> col.isNullable, isArray |-> col.isArray,
                        unknownTypes |-> unknown])

\* transformColumn up to the Generated qualifier: the type, and unknownTypes
\* as the mapper leaves it
columnType(col, enumList, unknown) ==
  IF IsDefined(matchingEnum(col, enumList))
  THEN [type |-> IF col.isNullable
                 THEN Union(<<Reference(enumTypeName(Get(matchingEnum(col, enumList)))),
                              NullType>>)
                 ELSE Reference(enumTypeName(Get(matchingEnum(col, enumList)))),
        unknownTypes |-> unknown]
  ELSE IF IsDefined(col.checkConstraint)
  THEN [type |-> IF Get(col.checkConstraint).type = "boolean"
                 THEN IF col.isNullable
                      THEN Union(<<Primitive("boolean"), NullType>>)
                      ELSE Primitive("boolean")
                 ELSE Union(literalTypes(Get(col.checkConstraint))
                              \o (IF col.isNullable THEN <<NullType>> ELSE <<>>)),
        unknownTypes |-> unknown]
  ELSE mapPostgresType(col.dataType,
                       [isNullable |-> col.isNullable, isArray |-> col.isArray,
                        unknownTypes |-> unknown])

\* the Generated qualifier applied to auto-increment columns only
wrapGeneratedAutoIncrementOnly(col, type) ==
  IF col.isAutoIncrement THEN Generic("Generated", <<type>>) ELSE type

\* the Generated qualifier of transformColumn
wrapGenerated(col, type) ==
  IF col.isAutoIncrement \/ col.hasDefaultValue
  THEN Generic("Generated", <<type>>)
  ELSE type

camelCaseOption(opts) == IsDefined(opts) /\ Get(opts).camelCase

\* transformColumn: the PropertyNode, and unknownTypes as the call leaves it
transformColumn(col, enumList, opts, unknown) ==
  LET mapped == columnType(col, enumList, unknown)
  IN [property |-> [name |-> IF camelCaseOption(opts) THEN toCamelCase(col.name)
                             ELSE col.name,
                    type |-> wrapGenerated(col, mapped.type),
                    optional |-> FALSE],
      unknownTypes |-> mapped.unknownTypes]

\* transformTable's properties, the columns mapped in order with the run's
\* unknownTypes threaded through
RECURSIVE transformColumns(_, _, _, _)
transformColumns(cols, enumList, opts, unknown) ==
  IF cols = <<>> THEN [properties |-> <<>>, unknownTypes |-> unknown]
  ELSE LET first == transformColumn(Head(cols), enumList, opts, unknown)
           rest == transformColumns(Tail(cols), enumList, opts, first.unknownTypes)
       IN [properties |-> <<first.property>> \o rest.properties,
           unknownTypes |-> rest.unknownTypes]

transformTable(table, enumList, opts, unknown) ==
  LET mapped == transformColumns(table.columns, enumList, opts, unknown)
  IN [interface |-> [kind |-> "interface",
                     name |-> toPascalCase(singularize(table.name)),
                     properties |-> mapped.properties,
                     exported |-> TRUE],
      unknownTypes |-> mapped.unknownTypes]

\* the DB interface with its properties in the reverse of the tables' order
createDBInterfaceReversed(tbls, opts) ==
  [kind |-> "interface",
   name |-> <<"D", "B">>,
   properties |-> [i \in 1..Len(tbls) |->
                     [name |-> IF camelCaseOption(opts)
                               THEN toCamelCase(tbls[Len(tbls) + 1 - i].name)
                               ELSE tbls[Len(tbls) + 1 - i].name,
                      type |-> Reference(toPascalCase(singularize(
                                           tbls[Len(tbls) + 1 - i].name))),
                      optional |-> FALSE]],
   exported |-> TRUE]

createDBInterface(tbls, opts) ==
  [kind |-> "interface",
   name |-> <<"D", "B">>,
   properties |-> [i \in 1..Len(tbls) |->
                     [name |-> IF camelCaseOption(opts) THEN toCamelCase(tbls[i].name)
                               ELSE tbls[i].name,
                      type |-> Reference(toPascalCase(singularize(tbls[i].name))),
                      optional |-> FALSE]],
   exported |-> TRUE]

-----------------------------------------------------------------------------
(* zod/type-mapper and zod/transform *)

ZodPrimitive(method) == [kind |-> "zod-primitive", method |-> method]
ZodUnion(schemas) == [kind |-> "zod-union", schemas |-> schemas]
ZodModified(schema, modifiers) ==
  [kind |-> "zod-modified", schema |-> schema, modifiers |-> modifiers]

s_Schema == <<"S","c","h","e","m","a">>
s_Buffer == <<"B","u","f","f","e","r">>

uncapitalize(str) ==
  IF str = <<>> THEN str ELSE <<ToLowerChar(str[1])>> \o Tail(str)

\* the modifiers without the nullable one
modifiersOfOptionalOnly(isNullable, isOptional) ==
  IF isOptional THEN <<"optional">> ELSE <<>>

modifiersOf(isNullable, isOptional) ==
  (IF isNullable THEN <<"nullable">> ELSE <<>>)
    \o (IF isOptional THEN <<"optional">> ELSE <<>>)

applyModifiers(schema, isNullable, isOptional) ==
  IF Len(modifiersOf(isNullable, isOptional)) > 0
  THEN ZodModified(schema, modifiersOf(isNullable, isOptional))
  ELSE schema

ZodXY ==
  <<[name |-> <<"x">>, schema |-> ZodPrimitive("number")],
    [name |-> <<"y">>, schema |-> ZodPrimitive("number")]>>

mapScalarType(dataType, mode) ==
  CASE dataType \in {t_int2, t_int4, t_smallint, t_integer, t_float4, t_float8,
                     t_real, t_double_precision} -> ZodPrimitive("number")
    [] dataType \in {t_int8, t_bigint} ->
         IF mode = "select" THEN ZodPrimitive("string")
         ELSE ZodUnion(<<ZodPrimitive("string"), ZodPrimitive("number"),
                         ZodPrimitive("bigint")>>)
    [] dataType \in {t_numeric, t_decimal} ->
         IF mode = "select" THEN ZodPrimitive("string")
         ELSE ZodUnion(<<ZodPrimitive("string"), ZodPrimitive("number")>>)
    [] dataType \in {t_varchar, t_char, t_text, t_citext, t_uuid, t_money, t_time,
                     t_timetz} -> ZodPrimitive("string")
    [] dataType \in {t_bool, t_boolean} -> ZodPrimitive("boolean")
    [] dataType \in {t_timestamp, t_timestamptz, t_date} ->
         IF mode = "select" THEN ZodPrimitive("date")
         ELSE ZodUnion(<<ZodPrimitive("date"), ZodPrimitive("string")>>)
    [] dataType = t_interval -> ZodPrimitive("unknown")
    [] dataType \in {t_json, t_jsonb} -> ZodPrimitive("unknown")
    [] dataType = t_bytea -> [kind |-> "zod-custom", typeReference |-> s_Buffer]
    [] dataType = t_point -> [kind |-> "zod-object", properties |-> ZodXY]
    [] dataType = t_circle ->
         [kind |-> "zod-object",
          properties |-> Append(ZodXY, [name |-> <<"r","a","d","i","u","s">>,
                                        schema |-> ZodPrimitive("number")])]
    [] dataType \in {t_int4range, t_int8range, t_numrange, t_daterange,
                     t_tsrange, t_tstzrange} -> ZodPrimitive("string")
    [] OTHER -> ZodPrimitive("unknown")

RECURSIVE mapPostgresTypeToZod(_, _)
mapPostgresTypeToZod(dataType, opts) ==
  IF opts.isArray \/ EndsWith(dataType, s_brackets)
  THEN LET baseTypeName == IF EndsWith(dataType, s_brackets)
                           THEN SubSeq(dataType, 1, Len(dataType) - 2)
                           ELSE dataType
           elementSchema ==
             mapPostgresTypeToZod(baseTypeName,
                                  [isNullable |-> FALSE, isArray |-> FALSE,
                                   isOptional |-> FALSE, mode |-> opts.mode])
       IN applyModifiers([kind |-> "zod-array", element |-> elementSchema],
                         opts.isNullable, opts.isOptional)
  ELSE applyModifiers(mapScalarType(dataType, opts.mode),
                      opts.isNullable, opts.isOptional)

zodEnumSchemaName(enum) == uncapitalize(getName(enum)) \o s_Schema

transformEnumToZod(enumMeta) ==
  [kind |-> "zod-schema-declaration",
   name |-> zodEnumSchemaName(enumMeta),
   schema |-> [kind |-> "zod-enum", values |-> enumMeta.values],
   exported |-> TRUE]

\* every column optional on insert as on update
zodIsOptionalInsertAlways(col, mode) == mode \in {"insert", "update"}

\* transformColumnToZod: isOptional
zodIsOptional(col, mode) ==
  mode = "update" \/ (mode = "insert" /\ (col.isAutoIncrement \/ col.hasDefaultValue))

\* the schema of a column before the modifiers, for the enum and the
\* constraint branches
zodConstraintSchema(checkConstraint) ==
  CASE checkConstraint.type = "boolean" -> ZodPrimitive("boolean")
    [] checkConstraint.type = "string" ->
         [kind |-> "zod-enum", values |-> checkConstraint.values]
    [] OTHER ->
         ZodUnion([i \in 1..Len(checkConstraint.values) |->
                     [kind |-> "zod-literal",
                      value |-> NumberValue(checkConstraint.values[i])]])

transformColumnToZod(col, enumList, mode, opts) ==
  LET columnName == IF camelCaseOption(opts) THEN toCamelCase(col.name) ELSE col.name
      found == matchingEnum(col, enumList)
      modifiers == modifiersOf(col.isNullable, zodIsOptional(col, mode))
      withModifiers(schema) ==
        IF Len(modifiers) > 0 THEN ZodModified(schema, modifiers) ELSE schema
  IN [name |-> columnName,
      schema |->
        IF IsDefined(found)
        THEN withModifiers([kind |-> "zod-reference",
                            name |-> uncapitalize(getName(Get(found))) \o s_Schema])
        ELSE IF IsDefined(col.checkConstraint)
        THEN withModifiers(zodConstraintSchema(Get(col.checkConstraint)))
        ELSE mapPostgresTypeToZod(col.dataType,
                                  [isNullable |-> col.isNullable,
                                   isArray |-> col.isArray,
                                   isOptional |-> zodIsOptional(col, mode),
                                   mode |-> mode])]

-----------------------------------------------------------------------------
(* ast/serialize *)

\* Text is a sequence of strings: single characters where the code looks at
\* them (names, literal values) and whole fixed fragments elsewhere.

RECURSIVE Join(_, _)
Join(texts, sep) ==
  IF texts = <<>> THEN <<>>
  ELSE IF Len(texts) = 1 THEN texts[1]
  ELSE texts[1] \o sep \o Join(Tail(texts), sep)

\* value.replace(/c/g, replacement) for a one-character pattern
ReplaceAll(value, c, replacement) ==
  Flatten([i \in 1..Len(value) |-> IF value[i] = c THEN replacement ELSE <<value[i]>>])

\* the replacements with the quote's ahead of the backslash's
escapeStringQuoteFirst(value) ==
  ReplaceAll(
    ReplaceAll(
      ReplaceAll(
        ReplaceAll(
          ReplaceAll(value, "'", <<"\\", "'">>),
          "\\", <<"\\", "\\">>),
        "\n", <<"\\", "n">>),
      "\r", <<"\\", "r">>),
    "\t", <<"\\", "t">>)

escapeString(value) ==
  ReplaceAll(
    ReplaceAll(
      ReplaceAll(
        ReplaceAll(
          ReplaceAll(value, "\\", <<"\\", "\\">>),
          "'", <<"\\", "'">>),
        "\n", <<"\\", "n">>),
      "\r", <<"\\", "r">>),
    "\t", <<"\\", "t">>)

\* String(n) of an integer
RECURSIVE NaturalText(_)
NaturalText(n) ==
  IF n < 10 THEN <<Digits[n + 1]>>
  ELSE NaturalText(n \div 10) \o <<Digits[(n % 10) + 1]>>

NumberText(n) == IF n < 0 THEN <<"-">> \o NaturalText(0 - n) ELSE NaturalText(n)

serializeLiteralValue(value) ==
  IF "string" \in DOMAIN value
  THEN <<"'">> \o escapeString(value.string) \o <<"'">>
  ELSE NumberText(value.number)

\* parentheses for an array's element only
needsParensArrayOnly(node, context) ==
  context = "array" /\ node.kind \in {"union", "intersection"}

needsParens(node, context) ==
  \/ context = "union" /\ node.kind = "intersection"
  \/ context = "intersection" /\ node.kind = "union"
  \/ context = "array" /\ node.kind \in {"union", "intersection"}

RECURSIVE serializeType(_)
serializeType(node) ==
  LET withParens(t, context) ==
        IF needsParens(t, context) THEN <<"(">> \o serializeType(t) \o <<")">>
        ELSE serializeType(t)
  IN CASE node.kind = "primitive" -> <<node.value>>
       [] node.kind = "literal" -> serializeLiteralValue(node.value)
       [] node.kind = "union" ->
            Join([i \in 1..Len(node.types) |-> withParens(node.types[i], "union")],
                 <<" | ">>)
       [] node.kind = "intersection" ->
            Join([i \in 1..Len(node.types) |-> withParens(node.types[i], "intersection")],
                 <<" & ">>)
       [] node.kind = "array" -> withParens(node.elementType, "array") \o <<"[]">>
       [] node.kind = "generic" ->
            <<node.name, "<">>
              \o Join([i \in 1..Len(node.typeArguments) |->
                         serializeType(node.typeArguments[i])], <<", ">>)
              \o <<">">>
       [] node.kind = "reference" -> node.name
       [] node.kind = "raw" -> node.value
       [] node.kind = "tuple" ->
            <<"[">>
              \o Join([i \in 1..Len(node.elements) |-> serializeType(node.elements[i])],
                      <<", ">>)
              \o <<"]">>
       [] node.kind = "conditional" ->
            serializeType(node.checkType) \o <<" extends ">>
              \o serializeType(node.extendsType) \o <<" ? ">>
              \o serializeType(node.trueType) \o <<" : ">>
              \o serializeType(node.falseType)
       [] node.kind = "keyof" -> <<"keyof ">> \o serializeType(node.type)
       [] node.kind = "indexAccess" ->
            serializeType(node.objectType) \o <<"[">> \o serializeType(node.indexType)
              \o <<"]">>
       [] node.kind = "infer" -> <<"infer ">> \o node.name

RESERVED_WORDS ==
  { <<"b","r","e","a","k">>,
    <<"c","a","s","e">>,
    <<"c","a","t","c","h">>,
    <<"c","l","a","s","s">>,
    <<"c","o","n","s","t">>,
    <<"c","o","n","t","i","n","u","e">>,
    <<"d","e","b","u","g","g","e","r">>,
    <<"d","e","f","a","u","l","t">>,
    <<"d","e","l","e","t","e">>,
    <<"d","o">>,
    <<"e","l","s","e">>,
    <<"e","n","u","m">>,
    <<"e","x","p","o","r","t">>,
    <<"e","x","t","e","n","d","s">>,
    <<"f","a","l","s","e">>,
    <<"f","i","n","a","l","l","y">>,
    <<"f","o","r">>,
    <<"f","u","n","c","t","i","o","n">>,
    <<"i","f">>,
    <<"i","m","p","o","r","t">>,
    <<"i","n">>,
    <<"i","n","s","t","a","n","c","e","o","f">>,
    <<"n","e","w">>,
    <<"n","u","l","l">>,
    <<"r","e","t","u","r","n">>,
    <<"s","u","p","e","r">>,
    <<"s","w","i","t","c","h">>,
    <<"t","h","i","s">>,
    <<"t","h","r","o","w">>,
    <<"t","r","u","e">>,
    <<"t","r","y">>,
    <<"t","y","p","e","o","f">>,
    <<"v","a","r">>,
    <<"v","o","i","d">>,
    <<"w","h","i","l","e">>,
    <<"w","i","t","h">>,
    <<"y","i","e","l","d">>,
    <<"l","e","t">>,
    <<"s","t","a","t","i","c">>,
    <<"i","m","p","l","e","m","e","n","t","s">>,
    <<"i","n","t","e","r","f","a","c","e">>,
    <<"p","a","c","k","a","g","e">>,
    <<"p","r","i","v","a","t","e">>,
    <<"p","r","o","t","e","c","t","e","d">>,
    <<"p","u","b","l","i","c">>,
    <<"a","w","a","i","t">>,
    <<"a","b","s","t","r","a","c","t">>,
    <<"a","s">>,
    <<"a","s","y","n","c">>,
    <<"d","e","c","l","a","r","e">>,
    <<"f","r","o","m">>,
    <<"g","e","t">>,
    <<"i","s">>,
    <<"m","o","d","u","l","e">>,
    <<"n","a","m","e","s","p","a","c","e">>,
    <<"o","f">>,
    <<"r","e","q","u","i","r","e">>,
    <<"s","e","t">>,
    <<"t","y","p","e">> }

IsIdentifierStart(c) == IsLetter(c) \/ c = "_" \/ c = "$"

\* quotes for the reserved words only
needsQuotesReservedOnly(name) == name \in RESERVED_WORDS

needsQuotes(name) ==
  \/ name \in RESERVED_WORDS
  \/ (name # <<>> /\ IsDigit(name[1]))
  \/ ~(/\ name # <<>>
       /\ IsIdentifierStart(name[1])
       /\ \A i \in 2..Len(name) : IsIdentifierStart(name[i]) \/ IsDigit(name[i]))

serializePropertyName(name) ==
  IF needsQuotes(name) THEN <<"'">> \o escapeString(name) \o <<"'">> ELSE name

serializeProperty(node) ==
  <<"  ">> \o serializePropertyName(node.name)
    \o (IF node.optional THEN <<"?">> ELSE <<>>)
    \o <<": ">> \o serializeType(node.type) \o <<";">>

serializeInterface(node) ==
  (IF node.exported THEN <<"export ">> ELSE <<>>)
    \o <<"interface ">> \o node.name \o <<" {", "\n">>
    \o Join([i \in 1..Len(node.properties) |-> serializeProperty(node.properties[i])],
            <<"\n">>)
    \o <<"\n", "}">>

serializeTypeAlias(node) ==
  (IF node.exported THEN <<"export ">> ELSE <<>>)
    \o <<"type ">> \o node.name \o <<" = ">> \o serializeType(node.type) \o <<";">>

serializeImport(node) ==
  <<"import">> \o (IF node.typeOnly THEN <<" type">> ELSE <<>>)
    \o <<" { ">> \o Join(node.imports, <<", ">>) \o <<" } from '">> \o node.from
    \o <<"';">>

serializeDeclaration(node) ==
  CASE node.kind = "interface" -> serializeInterface(node)
    [] node.kind = "typeAlias" -> serializeTypeAlias(node)
    [] node.kind = "import" -> serializeImport(node)

serialize(program) ==
  Join([i \in 1..Len(program.declarations) |->
          serializeDeclaration(program.declarations[i])], <<"\n", "\n">>)
    \o <<"\n">>

-----------------------------------------------------------------------------
(* zod/transform: the program and its serializer *)

getSchemaName(baseName, mode) ==
  CASE mode = "select" -> uncapitalize(baseName) \o s_Schema
    [] mode = "insert" -> <<"n","e","w">> \o baseName \o s_Schema
    [] mode = "update" -> uncapitalize(baseName) \o <<"U","p","d","a","t","e">> \o s_Schema

getTypeName(baseName, mode) ==
  CASE mode = "select" -> baseName
    [] mode = "insert" -> <<"N","e","w">> \o baseName
    [] mode = "update" -> baseName \o <<"U","p","d","a","t","e">>

transformTableToZod(table, enumList, mode, opts) ==
  [kind |-> "zod-schema-declaration",
   name |-> getSchemaName(toPascalCase(singularize(table.name)), mode),
   schema |-> [kind |-> "zod-object",
               properties |-> [i \in 1..Len(table.columns) |->
                                 transformColumnToZod(table.columns[i], enumList,
                                                      mode, opts)]],
   exported |-> TRUE]

createInferExport(baseName, mode) ==
  [kind |-> "zod-infer-export",
   typeName |-> getTypeName(baseName, mode),
   schemaName |-> getSchemaName(baseName, mode)]

\* the six declarations of one table
zodTableDeclarations(table, enumList, opts) ==
  <<transformTableToZod(table, enumList, "select", opts),
    transformTableToZod(table, enumList, "insert", opts),
    transformTableToZod(table, enumList, "update", opts),
    createInferExport(toPascalCase(singularize(table.name)), "select"),
    createInferExport(toPascalCase(singularize(table.name)), "insert"),
    createInferExport(toPascalCase(singularize(table.name)), "update")>>

transformDatabaseToZod(meta, opts) ==
  [declarations |->
     <<[kind |-> "zod-import"]>>
       \o [i \in 1..Len(meta.enums) |-> transformEnumToZod(meta.enums[i])]
       \o Flatten([i \in 1..Len(meta.tables) |->
                     zodTableDeclarations(meta.tables[i], meta.enums, opts)])]

RECURSIVE serializeZodSchema(_)
serializeZodSchema(node) ==
  CASE node.kind = "zod-primitive" -> <<"z.", node.method, "()">>
    [] node.kind = "zod-literal" ->
         <<"z.literal(">> \o serializeLiteralValue(node.value) \o <<")">>
    [] node.kind = "zod-union" ->
         <<"z.union([">>
           \o Join([i \in 1..Len(node.schemas) |-> serializeZodSchema(node.schemas[i])],
                   <<", ">>)
           \o <<"])">>
    [] node.kind = "zod-enum" ->
         <<"z.enum([">>
           \o Join([i \in 1..Len(node.values) |->
                      <<"'">> \o escapeString(node.values[i]) \o <<"'">>], <<", ">>)
           \o <<"])">>
    [] node.kind = "zod-array" ->
         <<"z.array(">> \o serializeZodSchema(node.element) \o <<")">>
    [] node.kind = "zod-object" ->
         IF Len(node.properties) = 0 THEN <<"z.object({})">>
         ELSE <<"z.object({", "\n">>
                \o Join([i \in 1..Len(node.properties) |->
                           <<"  ">> \o serializePropertyName(node.properties[i].name)
                             \o <<": ">>
                             \o serializeZodSchema(node.properties[i].schema)],
                        <<",", "\n">>)
                \o <<",", "\n", "})">>
    [] node.kind = "zod-modified" ->
         serializeZodSchema(node.schema)
           \o Flatten([i \in 1..Len(node.modifiers) |-> <<".", node.modifiers[i], "()">>])
    [] node.kind = "zod-reference" -> node.name
    [] node.kind = "zod-custom" -> <<"z.custom<">> \o node.typeReference \o <<">()">>
    [] node.kind = "zod-transform" ->
         serializeZodSchema(node.schema) \o <<".transform(">> \o node.transformFn
           \o <<")">>

serializeZodDeclaration(node) ==
  CASE node.kind = "zod-import" -> <<"import { z } from 'zod';">>
    [] node.kind = "zod-schema-declaration" ->
         (IF node.exported THEN <<"export ">> ELSE <<>>)
           \o <<"const ">> \o node.name \o <<" = ">>
           \o serializeZodSchema(node.schema) \o <<";">>
    [] node.kind = "zod-infer-export" ->
         <<"export type ">> \o node.typeName \o <<" = z.infer<typeof ">>
           \o node.schemaName \o <<">;">>

serializeZod(program) ==
  Join([i \in 1..Len(program.declarations) |->
          serializeZodDeclaration(program.declarations[i])], <<"\n", "\n">>)
    \o <<"\n">>

-----------------------------------------------------------------------------
(* transform/index: transformDatabase *)

TypeAlias(name, type) ==
  [kind |-> "typeAlias", name |-> name, type |-> type, exported |-> TRUE]

Raw(value) == [kind |-> "raw", value |-> value]

IntervalProperty(name) ==
  [name |-> name, type |-> Primitive("number"), optional |-> TRUE]

\* the declarations transformDatabase pushes before the enums, for the
\* postgres dialect
Preamble ==
  <<[kind |-> "import", imports |-> << <<"ColumnType">> >>, from |-> <<"kysely">>,
     typeOnly |-> TRUE],
    TypeAlias(<<"Generated<T>">>,
              Raw(<<"T extends ColumnType<infer S, infer I, infer U>", "\n",
                    "  ? ColumnType<S, I | undefined, U>", "\n",
                    "  : ColumnType<T, T | undefined, T>">>)),
    TypeAlias(<<"ArrayType<T>">>,
              Raw(<<"ArrayTypeImpl<T> extends (infer U)[]", "\n",
                    "  ? U[]", "\n",
                    "  : ArrayTypeImpl<T>">>)),
    TypeAlias(<<"ArrayTypeImpl<T>">>,
              Raw(<<"T extends ColumnType<infer S, infer I, infer U>", "\n",
                    "  ? ColumnType<S[], I[], U[]>", "\n",
                    "  : T[]">>)),
    TypeAlias(<<"JsonPrimitive">>,
              Union(<<Primitive("string"), Primitive("number"), Primitive("boolean"),
                      Primitive("null")>>)),
    TypeAlias(<<"JsonArray">>, ArrayNode(Reference(s_JsonValue))),
    TypeAlias(<<"JsonObject">>, Raw(<<"{ [key: string]: JsonValue }">>)),
    TypeAlias(s_JsonValue,
              Union(<<Reference(<<"JsonPrimitive">>), Reference(<<"JsonObject">>),
                      Reference(<<"JsonArray">>)>>)),
    [kind |-> "interface",
     name |-> s_IPostgresInterval,
     properties |->
       <<IntervalProperty(<<"y","e","a","r","s">>),
         IntervalProperty(<<"m","o","n","t","h","s">>),
         IntervalProperty(<<"d","a","y","s">>),
         IntervalProperty(<<"h","o","u","r","s">>),
         IntervalProperty(<<"m","i","n","u","t","e","s">>),
         IntervalProperty(<<"s","e","c","o","n","d","s">>),
         IntervalProperty(<<"m","i","l","l","i","s","e","c","o","n","d","s">>)>>,
     exported |-> TRUE]>>

\* a declarations array that outlives the call
keptDeclarations == declarations

\* const declarations = []
newDeclarations == <<>>

\* const unknownTypes = new Set<string>()
newUnknownTypes == <<>>

\* the DB interface pushed ahead of the table interfaces
pushInterfacesAfterDb(decls, interfaces, db) == decls \o <<db>> \o interfaces

\* declarations.push(...tableInterfaces); declarations.push(createDBInterface(...))
pushInterfaces(decls, interfaces, db) == decls \o interfaces \o <<db>>

\* Array.from(unknownTypes).map(...)
warningsOf(unknown) ==
  [i \in 1..Len(unknown) |-> [type |-> "unknown_type", pgType |-> unknown[i]]]

-----------------------------------------------------------------------------
(* Idle values: the variables of the operations a specification leaves out *)

FilterIdle == tables = <<>> /\ options = Undefined /\ filtered = Undefined

ColumnIdle ==
  /\ column = Undefined /\ enums = <<>> /\ colOptions = Undefined
  /\ property = Undefined /\ colUnknown = <<>> /\ zodProperty = Undefined
  /\ zodMode = "select"

ParseIdle == definition = <<>> /\ parsed = Undefined /\ parser = "none"

SerializeIdle == serInput = Undefined /\ serText = Undefined /\ serZodText = Undefined

CliIdle ==
  /\ cliOptions = Undefined /\ database = Undefined /\ cliPc = "idle"
  /\ connected = FALSE /\ code = Undefined /\ outFile = Undefined
  /\ stdout = <<>> /\ exitStatus = Undefined

RunsIdle == runInputs = <<>> /\ frames = <<>> /\ heap = <<>>

DbIdle ==
  /\ metadata = Undefined /\ dbOptions = Undefined /\ pc = "idle"
  /\ declarations = <<>> /\ unknownTypes = <<>> /\ filteredTables = <<>>
  /\ tableInterfaces = <<>> /\ warnings = <<>> /\ output = Undefined
  /\ runs = 0 /\ firstResult = Undefined
  /\ zodProgram = Undefined /\ zodOutput = Undefined /\ zodRuns = 0
  /\ firstZodOutput = Undefined

-----------------------------------------------------------------------------
(* The constraint normalizer on its own: SpecParse *)

MaxListLen == 5

ListAlphabet == {"0", "1", "2", ",", "-"}

\* value lists: every text over the digits, the comma and the minus sign, and
\* a few with white space and with quoted strings
ValueLists ==
  SeqsUpTo(ListAlphabet, MaxListLen)
    \cup { <<"0", ",", " ", "1">>, <<" ", "1", " ", ",", "0", " ">>,
           <<"0", ",", " ", "1", ",", " ", "2">>,
           <<"'", "0", "'", ",", "'", "1", "'">>,
           <<"'", "a", "'", ",", "'", "b", "'">>,
           <<"'", "i", "t", "'", "'", "s", "'">> }

Dialects == {"postgres", "sqlite", "mssql", "mysql"}

\* the CHECK text each dialect's catalog reports for `c IN (list)`
CheckPrefix(dialect) ==
  CASE dialect = "postgres" ->
         <<"C","H","E","C","K"," ","(","(","c"," ">> \o s_eqAny \o s_ARRAY
    [] dialect = "sqlite" -> <<"c", " ", "I", "N", " ", "(">>
    [] dialect = "mssql" -> <<"(", "[", "c", "]", " ", "I", "N", " ", "(">>
    [] dialect = "mysql" -> <<Backtick, "c", Backtick, " ", "i", "n", " ", "(">>

CheckSuffix(dialect) ==
  CASE dialect = "postgres" -> <<"]", ")", ")", ")">>
    [] dialect = "sqlite" -> <<")">>
    [] dialect = "mssql" -> <<")", ")">>
    [] dialect = "mysql" -> <<")">>

CheckText(dialect, list) == CheckPrefix(dialect) \o list \o CheckSuffix(dialect)

ParseInit ==
  /\ parser \in Dialects
  /\ definition \in {CheckText(parser, list) : list \in ValueLists}
  /\ parsed = Undefined

ParsePostgres ==
  /\ parser = "postgres" /\ ~IsDefined(parsed)
  /\ parsed' = Some(parseCheckConstraint(definition))
  /\ UNCHANGED <<definition, parser>>

ParseSqlite ==
  /\ parser = "sqlite" /\ ~IsDefined(parsed)
  /\ parsed' = Some(parseSqliteCheckConstraint(definition))
  /\ UNCHANGED <<definition, parser>>

ParseMssql ==
  /\ parser = "mssql" /\ ~IsDefined(parsed)
  /\ parsed' = Some(parseMssqlCheckConstraint(definition))
  /\ UNCHANGED <<definition, parser>>

ParseMysql ==
  /\ parser = "mysql" /\ ~IsDefined(parsed)
  /\ parsed' = Some(parseMysqlCheckConstraint(definition))
  /\ UNCHANGED <<definition, parser>>

InitParse == ParseInit /\ FilterIdle /\ ColumnIdle /\ DbIdle /\ SerializeIdle /\ CliIdle /\ RunsIdle
NextParse ==
  /\ (ParsePostgres \/ ParseSqlite \/ ParseMssql \/ ParseMysql)
  /\ UNCHANGED <<filterVars, columnVars, dbVars, serializeVars, cliVars, runVars>>
SpecParse == InitParse /\ [][NextParse]_vars

\* the list the definition was written with, and the integers it names when
\* it is a numeric list, read independently of the parsers
ListOf(def) ==
  SubSeq(def, Len(CheckPrefix(parser)) + 1, Len(def) - Len(CheckSuffix(parser)))

RECURSIVE NoSpace(_)
NoSpace(t) ==
  IF t = <<>> THEN <<>>
  ELSE IF Head(t) = " " THEN NoSpace(Tail(t)) ELSE <<Head(t)>> \o NoSpace(Tail(t))

IsSignedNumber(t) ==
  /\ t # <<>>
  /\ \A k \in 1..Len(t) : t[k] \in {"0", "1", "2"} \/ (k = 1 /\ t[k] = "-")
  /\ t # <<"-">>

RECURSIVE Magnitude(_)
Magnitude(t) ==
  IF t = <<>> THEN 0
  ELSE Magnitude(SubSeq(t, 1, Len(t) - 1)) * 10
         + (CASE t[Len(t)] = "0" -> 0 [] t[Len(t)] = "1" -> 1 [] t[Len(t)] = "2" -> 2)

NumberOf(t) == IF t[1] = "-" THEN 0 - Magnitude(Tail(t)) ELSE Magnitude(t)

IsNumericText(list) ==
  \A k \in 1..Len(Split(list, ",")) : IsSignedNumber(NoSpace(Split(list, ",")[k]))

NumbersOf(list) ==
  [k \in 1..Len(Split(list, ",")) |-> NumberOf(NoSpace(Split(list, ",")[k]))]

\* the ParsedCheckConstraint of a result (MySQL returns it beside the column)
ConstraintOf(result) == IF result.type = "mysql" THEN result.constraint ELSE result

ExpectedNumeric(list) ==
  IF Range(NumbersOf(list)) = {0, 1} /\ Len(NumbersOf(list)) = 2
  THEN [type |-> "boolean"]
  ELSE [type |-> "number", values |-> NumbersOf(list)]

-----------------------------------------------------------------------------
(* filterTables on its own: SpecFilter *)

MaxFilterTables == 2
MaxPatterns == 2

FilterTableUniverse ==
  { Table(s_public, s_users, FALSE, <<>>),
    Table(s_public, s_posts, FALSE, <<>>),
    Table(s_auth, s_sessions, FALSE, <<>>),
    Table(s_public, s_internal_logs, FALSE, <<>>),
    Table(s_public, s_users_p, TRUE, <<>>) }

PatternUniverse == {p_internal, p_public_user, p_public_all}

PatternLists == {Undefined} \cup {Some(l) : l \in SeqsUpTo(PatternUniverse, MaxPatterns)}

FilterOptions ==
  {Undefined} \cup {Some(Options(FALSE, inc, exc)) : inc \in PatternLists, exc \in PatternLists}

FilterInit ==
  /\ tables \in DistinctSeqs(FilterTableUniverse, MaxFilterTables)
  /\ options \in FilterOptions
  /\ filtered = Undefined

FilterTables ==
  /\ ~IsDefined(filtered)
  /\ filtered' = Some(filterTables(tables, options))
  /\ UNCHANGED <<tables, options>>

InitFilter == FilterInit /\ ColumnIdle /\ ParseIdle /\ DbIdle /\ SerializeIdle /\ CliIdle /\ RunsIdle
NextFilter == FilterTables /\ UNCHANGED <<columnVars, parseVars, dbVars, serializeVars, cliVars, runVars>>
SpecFilter == InitFilter /\ [][NextFilter]_vars

\* C3 (as claimed): filterTables returns no table whose isPartition flag is
\* true, whatever the options are.
C3_PartitionsRemoved ==
  IsDefined(filtered) => \A i \in 1..Len(Get(filtered)) : ~Get(filtered)[i].isPartition

\* the list of patterns an option holds: none when the option is absent
PatternsOf(opt) == IF IsDefined(opt) THEN Get(opt) ELSE <<>>
IncludeOf(opts) == IF IsDefined(opts) THEN PatternsOf(Get(opts).includePattern) ELSE <<>>
ExcludeOf(opts) == IF IsDefined(opts) THEN PatternsOf(Get(opts).excludePattern) ELSE <<>>

MatchesSome(table, patterns) ==
  \E i \in 1..Len(patterns) : GlobMatch(patterns[i], tablePattern(table))

\* C4: a non-partition table is kept if and only if `schema.table` matches no
\* exclude pattern and either no include pattern was supplied or it matches at
\* least one; a table matching both an exclude and an include pattern is
\* dropped, and the kept tables keep their input order.
C4_ExcludeThenInclude ==
  IsDefined(filtered) =>
    /\ \A i \in 1..Len(tables) :
         ~tables[i].isPartition =>
           ( tables[i] \in Range(Get(filtered))
             <=> /\ ~MatchesSome(tables[i], ExcludeOf(options))
                 /\ (IncludeOf(options) = <<>> \/ MatchesSome(tables[i], IncludeOf(options))) )
    /\ \A i, j \in 1..Len(Get(filtered)) :
         i < j => \E k, l \in 1..Len(tables) :
                    k < l /\ tables[k] = Get(filtered)[i] /\ tables[l] = Get(filtered)[j]

\* a table matching both an include and an exclude pattern was filtered out
C4_Witness ==
  /\ IsDefined(filtered)
  /\ \E i \in 1..Len(tables) :
       /\ ~tables[i].isPartition
       /\ MatchesSome(tables[i], ExcludeOf(options))
       /\ MatchesSome(tables[i], IncludeOf(options))
       /\ tables[i] \notin Range(Get(filtered))
  /\ Len(Get(filtered)) >= 1

-----------------------------------------------------------------------------
(* One column through transformColumn and transformColumnToZod: SpecColumn *)

MaxDims == 1

s_created_at == <<"c","r","e","a","t","e","d","_","a","t">>
s_geometry == <<"g","e","o","m","e","t","r","y">>
s_status == <<"s","t","a","t","u","s">>
s_role_enum == <<"r","o","l","e","_","e","n","u","m">>
s_active == <<"a","c","t","i","v","e">>
s_inactive == <<"i","n","a","c","t","i","v","e">>

Enum(schema, name, values) == [schema |-> schema, name |-> name, values |-> values]

e_status == Enum(s_public, s_status, <<s_active, s_inactive>>)
e_auth_status == Enum(s_auth, s_status, <<s_active>>)
e_auth_role == Enum(s_auth, s_role_enum, <<s_users, s_public>>)

\* the enum lists of a run: (schema, name) pairs are distinct within a list
EnumLists ==
  { <<>>, <<e_status>>, <<e_auth_status, e_status>>,
    <<e_auth_role, e_status, e_auth_status>> }

\* a type name followed by up to n pairs of brackets
RECURSIVE WithDims(_, _)
WithDims(name, n) == IF n = 0 THEN name ELSE WithDims(name, n - 1) \o s_brackets

BaseDataTypes == {t_int4, t_int8, t_jsonb, s_geometry, s_status, s_role_enum}

ColumnDataTypes == {WithDims(t, n) : t \in BaseDataTypes, n \in 0..MaxDims}

CheckConstraints ==
  { Undefined,
    Some([type |-> "boolean"]),
    Some([type |-> "string", values |-> <<s_active>>]),
    Some([type |-> "string", values |-> <<s_active, s_inactive>>]),
    Some([type |-> "number", values |-> <<1, 2, 3>>]) }

Columns ==
  [name : {s_created_at},
   dataType : ColumnDataTypes,
   dataTypeSchema : {Undefined, Some(s_public), Some(s_auth)},
   isNullable : BOOLEAN,
   isAutoIncrement : BOOLEAN,
   hasDefaultValue : BOOLEAN,
   isArray : BOOLEAN,
   checkConstraint : CheckConstraints]

ZodModes == {"select", "insert", "update"}

\* { noBooleanCoerce: true }
NoBooleanCoerceOptions ==
  [camelCase |-> FALSE, includePattern |-> Undefined, excludePattern |-> Undefined,
   noBooleanCoerce |-> TRUE]

ColumnInit ==
  /\ column \in Columns
  /\ enums \in EnumLists
  /\ colOptions \in {Undefined, Some(Options(TRUE, Undefined, Undefined)),
                    Some(NoBooleanCoerceOptions)}
  /\ property = Undefined
  /\ colUnknown = <<>>
  /\ zodProperty = Undefined
  /\ zodMode = "select"

TransformColumn ==
  /\ ~IsDefined(property)
  /\ LET result == transformColumn(column, enums, colOptions, colUnknown)
     IN /\ property' = Some(result.property)
        /\ colUnknown' = result.unknownTypes
  /\ UNCHANGED <<column, enums, colOptions, zodProperty, zodMode>>

TransformColumnToZod ==
  /\ IsDefined(property)
  /\ ~IsDefined(zodProperty)
  /\ \E mode \in ZodModes :
       /\ zodMode' = mode
       /\ zodProperty' = Some(transformColumnToZod(column, enums, mode, colOptions))
  /\ UNCHANGED <<column, enums, colOptions, property, colUnknown>>

InitColumn == ColumnInit /\ FilterIdle /\ ParseIdle /\ DbIdle /\ SerializeIdle /\ CliIdle /\ RunsIdle

NextColumn ==
  \/ TransformColumn /\ UNCHANGED <<filterVars, parseVars, dbVars, serializeVars, cliVars, runVars>>
  \/ TransformColumnToZod /\ UNCHANGED <<filterVars, parseVars, dbVars, serializeVars, cliVars, runVars>>

SpecColumn == InitColumn /\ [][NextColumn]_vars

\* what the formulas below read off an emitted type
IsNullArm(t) == t.kind = "primitive" /\ t.value = "null"

IsGenerated(t) == t.kind = "generic" /\ t.name = "Generated"

\* the type inside the Generated qualifier, or the type itself
Unqualified(t) == IF IsGenerated(t) THEN t.typeArguments[1] ELSE t

\* the arms of a type that are not null (a type that is no union is its own
\* single arm)
NonNullArms(t) ==
  IF t.kind = "union" THEN SelectSeq(t.types, LAMBDA arm : ~IsNullArm(arm)) ELSE <<t>>

\* a union of a single arm denotes that arm
Simplify(t) == IF t.kind = "union" /\ Len(t.types) = 1 THEN t.types[1] ELSE t

RECURSIVE SumSeq(_)
SumSeq(ns) == IF ns = <<>> THEN 0 ELSE Head(ns) + SumSeq(Tail(ns))

\* how many null types occur anywhere in a type
RECURSIVE NullCount(_)
NullCount(t) ==
  CASE t.kind = "primitive" -> IF t.value = "null" THEN 1 ELSE 0
    [] t.kind = "union" -> SumSeq([i \in 1..Len(t.types) |-> NullCount(t.types[i])])
    [] t.kind = "generic" ->
         SumSeq([i \in 1..Len(t.typeArguments) |-> NullCount(t.typeArguments[i])])
    [] t.kind = "array" -> NullCount(t.elementType)
    [] OTHER -> 0

\* how many Generated qualifiers occur anywhere in a type
RECURSIVE GeneratedCount(_)
GeneratedCount(t) ==
  CASE t.kind = "union" -> SumSeq([i \in 1..Len(t.types) |-> GeneratedCount(t.types[i])])
    [] t.kind = "generic" ->
         (IF t.name = "Generated" THEN 1 ELSE 0)
           + SumSeq([i \in 1..Len(t.typeArguments) |-> GeneratedCount(t.typeArguments[i])])
    [] t.kind = "array" -> GeneratedCount(t.elementType)
    [] OTHER -> 0

ZodUnmodified(schema) == IF schema.kind = "zod-modified" THEN schema.schema ELSE schema

\* the enums of the run that the column's (dataTypeSchema, dataType) identifies
ColumnSchema ==
  IF IsDefined(column.dataTypeSchema) THEN Get(column.dataTypeSchema) ELSE s_public

RefersTo(e) == column.dataType = e.name /\ ColumnSchema = e.schema

NamesEnum == \E i \in 1..Len(enums) : RefersTo(enums[i])

HasConstraint == IsDefined(column.checkConstraint)

\* the non-null arms a constraint stands for in the type declarations, and
\* the schema it stands for in the validation schemas
ConstraintArms(c) ==
  IF c.type = "boolean" THEN <<Primitive("boolean")>>
  ELSE [i \in 1..Len(c.values) |->
          IF c.type = "string" THEN Literal(StringValue(c.values[i]))
          ELSE Literal(NumberValue(c.values[i]))]

ConstraintSchema(c) ==
  CASE c.type = "boolean" -> ZodPrimitive("boolean")
    [] c.type = "string" -> [kind |-> "zod-enum", values |-> c.values]
    [] c.type = "number" ->
         ZodUnion([i \in 1..Len(c.values) |->
                     [kind |-> "zod-literal", value |-> NumberValue(c.values[i])]])

EmittedArms == NonNullArms(Unqualified(Get(property).type))
EmittedSchema == ZodUnmodified(Get(zodProperty).schema)

IsEnumReference(arms) ==
  /\ Len(arms) = 1
  /\ arms[1].kind = "reference"
  /\ \E i \in 1..Len(enums) : RefersTo(enums[i]) /\ arms[1].name = getName(enums[i])

IsZodEnumReference(schema) ==
  /\ schema.kind = "zod-reference"
  /\ \E i \in 1..Len(enums) :
       RefersTo(enums[i]) /\ schema.name = uncapitalize(getName(enums[i])) \o s_Schema

\* C1 (as claimed): every column that carries a parsed CHECK constraint gets
\* the type derived from that constraint from both builders, also when its
\* dataType names a known enum.
C1_ConstraintAlwaysWins ==
  /\ (IsDefined(property) /\ HasConstraint) =>
       EmittedArms = ConstraintArms(Get(column.checkConstraint))
  /\ (IsDefined(zodProperty) /\ HasConstraint) =>
       EmittedSchema = ConstraintSchema(Get(column.checkConstraint))

\* C1 (amended): in both builders a column whose dataType names a known enum
\* of its schema gets the enum reference, with or without a CHECK constraint;
\* a column that names no enum and carries a constraint gets the type derived
\* from the constraint; the scalar mapper is used only when the column names
\* no enum and carries no constraint.
C1_EnumThenConstraint ==
  /\ IsDefined(property) =>
       IF NamesEnum THEN IsEnumReference(EmittedArms)
       ELSE IF HasConstraint
       THEN EmittedArms = ConstraintArms(Get(column.checkConstraint))
       ELSE /\ Get(property).type =
                 wrapGenerated(column,
                   mapPostgresType(column.dataType,
                                   [isNullable |-> column.isNullable,
                                    isArray |-> column.isArray,
                                    unknownTypes |-> <<>>]).type)
            /\ \A i \in 1..Len(EmittedArms) : EmittedArms[i].kind # "literal"
  /\ IsDefined(zodProperty) =>
       IF NamesEnum THEN IsZodEnumReference(EmittedSchema)
       ELSE IF HasConstraint
       THEN EmittedSchema = ConstraintSchema(Get(column.checkConstraint))
       ELSE Get(zodProperty).schema =
              mapPostgresTypeToZod(column.dataType,
                                   [isNullable |-> column.isNullable,
                                    isArray |-> column.isArray,
                                    isOptional |-> zodIsOptional(column, zodMode),
                                    mode |-> zodMode])

\* both builders have run on a column that names a known enum and carries a
\* constraint, and both emitted the enum reference
C1_Witness ==
  /\ IsDefined(property) /\ IsDefined(zodProperty)
  /\ NamesEnum /\ HasConstraint
  /\ IsEnumReference(EmittedArms)
  /\ IsZodEnumReference(EmittedSchema)

\* C6: the type transformColumn gives a nullable column, before the Generated
\* qualifier, is a union whose last arm is null, holds no other null anywhere
\* (not in an array's element, not nested), and without that arm is the type
\* the same column gets with isNullable = false.
C6_NullableOnce ==
  (IsDefined(property) /\ column.isNullable) =>
    LET type == Unqualified(Get(property).type)
        plain == Unqualified(
                   transformColumn([column EXCEPT !.isNullable = FALSE],
                                   enums, colOptions, <<>>).property.type)
    IN /\ type.kind = "union"
       /\ Len(type.types) >= 2
       /\ IsNullArm(type.types[Len(type.types)])
       /\ NullCount(type) = 1
       /\ NullCount(plain) = 0
       /\ Simplify(Union(SubSeq(type.types, 1, Len(type.types) - 1))) = Simplify(plain)

\* a nullable array column went through the mapper: the null arm is around
\* the array
C6_Witness ==
  /\ IsDefined(property)
  /\ column.isNullable /\ column.isArray
  /\ ~NamesEnum /\ ~HasConstraint
  /\ LET type == Unqualified(Get(property).type)
     IN /\ type.kind = "union"
        /\ type.types[1].kind \in {"array", "generic"}
        /\ IsNullArm(type.types[2])

RuleName(e) ==
  IF e.schema = s_public THEN toPascalCase(e.name)
  ELSE toPascalCase(e.schema) \o toPascalCase(e.name)

-----------------------------------------------------------------------------
(* transformDatabase and serialize, and the validation-schema pipeline, run *)
(* again and again on one input: SpecDb                                     *)

MaxTables == 2
MaxColumns == 2
MaxRuns == 2

s_id == <<"i","d">>
s_geom == <<"g","e","o","m">>
s_shape == <<"s","h","a","p","e">>
s_path == <<"p","a","t","h">>
s_kind == <<"k","i","n","d">>
s_ltree == <<"l","t","r","e","e">>

Column(name, dataType, isNullable, isAutoIncrement, hasDefaultValue, isArray, check) ==
  [name |-> name, dataType |-> dataType, dataTypeSchema |-> Undefined,
   isNullable |-> isNullable, isAutoIncrement |-> isAutoIncrement,
   hasDefaultValue |-> hasDefaultValue, isArray |-> isArray,
   checkConstraint |-> check]

c_id == Column(s_id, t_int4, FALSE, TRUE, TRUE, FALSE, Undefined)
c_geom == Column(s_geom, s_geometry, FALSE, FALSE, FALSE, FALSE, Undefined)
c_shape == Column(s_shape, WithDims(s_geometry, 1), TRUE, FALSE, FALSE, FALSE, Undefined)
c_path == Column(s_path, s_ltree, FALSE, FALSE, FALSE, TRUE, Undefined)
c_status == Column(s_status, s_status, TRUE, FALSE, TRUE, FALSE, Undefined)
c_kind == Column(s_kind, s_geometry, FALSE, FALSE, FALSE, FALSE,
                 Some([type |-> "string", values |-> <<s_active, s_inactive>>]))
c_created_at == Column(s_created_at, t_timestamptz, FALSE, FALSE, TRUE, FALSE, Undefined)

\* the first n columns of a table
FirstColumns(cols, n) == SubSeq(cols, 1, Min({n, Len(cols)}))

DbTableUniverse ==
  { Table(s_public, s_users, FALSE, FirstColumns(<<c_geom, c_shape, c_id>>, MaxColumns)),
    Table(s_public, s_posts, FALSE, FirstColumns(<<c_status, c_geom, c_path>>, MaxColumns)),
    Table(s_auth, s_sessions, FALSE,
          FirstColumns(<<c_kind, c_path, c_created_at>>, MaxColumns)),
    Table(s_public, s_internal_logs, FALSE, FirstColumns(<<c_id, c_kind>>, MaxColumns)),
    Table(s_public, s_users_p, TRUE, FirstColumns(<<c_path, c_id, c_geom>>, MaxColumns)) }

DbOptions ==
  { Undefined,
    Some(Options(TRUE, Undefined, Undefined)),
    Some(Options(FALSE, Undefined, Some(<<p_internal>>))),
    Some(Options(FALSE, Some(<<p_public_all>>), Some(<<p_public_user>>))) }

DbInit ==
  /\ metadata \in [tables : DistinctSeqs(DbTableUniverse, MaxTables),
                   enums : {<<>>, <<e_auth_status, e_status>>}]
  /\ dbOptions \in DbOptions
  /\ pc = "idle"
  /\ declarations = <<>>
  /\ unknownTypes = <<>>
  /\ filteredTables = <<>>
  /\ tableInterfaces = <<>>
  /\ warnings = <<>>
  /\ output = Undefined
  /\ runs = 0
  /\ firstResult = Undefined
  /\ zodProgram = Undefined
  /\ zodOutput = Undefined
  /\ zodRuns = 0
  /\ firstZodOutput = Undefined

zodVars == <<zodProgram, zodOutput, zodRuns, firstZodOutput>>

\* the call, up to the enum loop: the fresh locals and the preamble
StartTransform ==
  /\ pc = "idle"
  /\ runs < MaxRuns
  /\ declarations' = newDeclarations \o Preamble
  /\ unknownTypes' = newUnknownTypes
  /\ filteredTables' = <<>>
  /\ tableInterfaces' = <<>>
  /\ warnings' = <<>>
  /\ output' = Undefined
  /\ pc' = "enums"
  /\ UNCHANGED <<metadata, dbOptions, runs, firstResult, zodVars>>

\* for (const enumMetadata of metadata.enums) declarations.push(...)
TransformEnums ==
  /\ pc = "enums"
  /\ declarations' =
       declarations \o [i \in 1..Len(metadata.enums) |-> transformEnum(metadata.enums[i])]
  /\ pc' = "filter"
  /\ UNCHANGED <<metadata, dbOptions, unknownTypes, filteredTables, tableInterfaces,
                 warnings, output, runs, firstResult, zodVars>>

\* const filteredTables = filterTables(metadata.tables, options)
FilterStep ==
  /\ pc = "filter"
  /\ filteredTables' = filterTables(metadata.tables, dbOptions)
  /\ pc' = "tables"
  /\ UNCHANGED <<metadata, dbOptions, declarations, unknownTypes, tableInterfaces,
                 warnings, output, runs, firstResult, zodVars>>

\* one turn of the loop over filteredTables
TransformTable ==
  /\ pc = "tables"
  /\ Len(tableInterfaces) < Len(filteredTables)
  /\ LET result == transformTable(filteredTables[Len(tableInterfaces) + 1],
                                  metadata.enums, dbOptions, unknownTypes)
     IN /\ tableInterfaces' = Append(tableInterfaces, result.interface)
        /\ unknownTypes' = result.unknownTypes
  /\ UNCHANGED <<metadata, dbOptions, pc, declarations, filteredTables, warnings,
                 output, runs, firstResult, zodVars>>

\* after the loop: the table interfaces, the DB interface, the warnings, and
\* the return
FinishTransform ==
  /\ pc = "tables"
  /\ Len(tableInterfaces) = Len(filteredTables)
  /\ declarations' =
       pushInterfaces(declarations, tableInterfaces,
                      createDBInterface(filteredTables, dbOptions))
  /\ warnings' = warningsOf(unknownTypes)
  /\ pc' = "returned"
  /\ UNCHANGED <<metadata, dbOptions, unknownTypes, filteredTables, tableInterfaces,
                 output, runs, firstResult, zodVars>>

\* serialize(program) on the returned program
Serialize ==
  /\ pc = "returned"
  /\ output' = Some(serialize([declarations |-> declarations]))
  /\ runs' = runs + 1
  /\ firstResult' = IF IsDefined(firstResult) THEN firstResult
                    ELSE Some([output |-> serialize([declarations |-> declarations]),
                               warnings |-> warnings])
  /\ pc' = "idle"
  /\ UNCHANGED <<metadata, dbOptions, declarations, unknownTypes, filteredTables,
                 tableInterfaces, warnings, zodVars>>

\* serializeZod(transformDatabaseToZod(metadata, options))
RunZod ==
  /\ pc = "idle"
  /\ zodRuns < MaxRuns
  /\ zodProgram' = Some(transformDatabaseToZod(metadata, dbOptions))
  /\ zodOutput' = Some(serializeZod(transformDatabaseToZod(metadata, dbOptions)))
  /\ zodRuns' = zodRuns + 1
  /\ firstZodOutput' = IF IsDefined(firstZodOutput) THEN firstZodOutput
                       ELSE Some(serializeZod(transformDatabaseToZod(metadata, dbOptions)))
  /\ UNCHANGED <<metadata, dbOptions, pc, declarations, unknownTypes, filteredTables,
                 tableInterfaces, warnings, output, runs, firstResult>>

InitDb == DbInit /\ FilterIdle /\ ColumnIdle /\ ParseIdle /\ SerializeIdle /\ CliIdle /\ RunsIdle

NextDb ==
  \/ StartTransform /\ UNCHANGED <<filterVars, columnVars, parseVars, serializeVars, cliVars, runVars>>
  \/ TransformEnums /\ UNCHANGED <<filterVars, columnVars, parseVars, serializeVars, cliVars, runVars>>
  \/ FilterStep /\ UNCHANGED <<filterVars, columnVars, parseVars, serializeVars, cliVars, runVars>>
  \/ TransformTable /\ UNCHANGED <<filterVars, columnVars, parseVars, serializeVars, cliVars, runVars>>
  \/ FinishTransform /\ UNCHANGED <<filterVars, columnVars, parseVars, serializeVars, cliVars, runVars>>
  \/ Serialize /\ UNCHANGED <<filterVars, columnVars, parseVars, serializeVars, cliVars, runVars>>
  \/ RunZod /\ UNCHANGED <<filterVars, columnVars, parseVars, serializeVars, cliVars, runVars>>

SpecDb == InitDb /\ [][NextDb]_vars

\* transformDatabase has returned and has not been called again
Returned == pc = "returned" \/ (pc = "idle" /\ runs > 0)

\* filtering as specified: partitions go, then the tables matching an exclude
\* pattern, then the tables matching no include pattern when there is one
SurvivesFiltering(t) ==
  /\ ~t.isPartition
  /\ ~MatchesSome(t, ExcludeOf(dbOptions))
  /\ (IncludeOf(dbOptions) = <<>> \/ MatchesSome(t, IncludeOf(dbOptions)))

InterfaceName(t) == toPascalCase(singularize(t.name))

InterfacesNamed(name) ==
  {k \in 1..Len(declarations) :
     declarations[k].kind = "interface" /\ declarations[k].name = name}

DbInterface == declarations[Len(declarations)]

DbPropertiesReferring(name) ==
  {k \in 1..Len(DbInterface.properties) : DbInterface.properties[k].type = Reference(name)}

\* C5 (as claimed): the returned Program holds, for each table that survives
\* filtering, exactly one interface and exactly one DB property referring to
\* it, and neither for a table that did not survive.
C5_OnePerSurvivingTable ==
  Returned =>
    \A i \in 1..Len(metadata.tables) :
      LET name == InterfaceName(metadata.tables[i])
      IN IF SurvivesFiltering(metadata.tables[i])
         THEN /\ Cardinality(InterfacesNamed(name)) = 1
              /\ Cardinality(DbPropertiesReferring(name)) = 1
         ELSE /\ InterfacesNamed(name) = {}
              /\ DbPropertiesReferring(name) = {}

RECURSIVE BaseName(_)
BaseName(dataType) ==
  IF EndsWith(dataType, s_brackets)
  THEN BaseName(SubSeq(dataType, 1, Len(dataType) - 2))
  ELSE dataType

\* the columns transformDatabase hands to the type mapper: those of the
\* tables it transforms that name no enum and carry no constraint
ReachesMapper(c) ==
  /\ ~IsDefined(c.checkConstraint)
  /\ ~\E i \in 1..Len(metadata.enums) :
        /\ metadata.enums[i].name = c.dataType
        /\ metadata.enums[i].schema =
             (IF IsDefined(c.dataTypeSchema) THEN Get(c.dataTypeSchema) ELSE s_public)

Unrecognized(c) == ReachesMapper(c) /\ ~IsDefined(postgresBaseType(BaseName(c.dataType)))

MappedPositions ==
  UNION {{<<t, k>> : k \in 1..Len(filteredTables[t].columns)} :
           t \in 1..Len(filteredTables)}

UnrecognizedNames ==
  {BaseName(filteredTables[p[1]].columns[p[2]].dataType) :
     p \in {q \in MappedPositions : Unrecognized(filteredTables[q[1]].columns[q[2]])}}

\* the type at the core of an emitted type: inside Generated, the null union,
\* arrays and ArrayType
RECURSIVE CoreType(_)
CoreType(t) ==
  CASE t.kind = "generic" /\ t.name \in {"Generated", "ArrayType"} ->
         CoreType(t.typeArguments[1])
    [] t.kind = "union" /\ Len(t.types) = 2 /\ IsNullArm(t.types[2]) -> CoreType(t.types[1])
    [] t.kind = "array" -> CoreType(t.elementType)
    [] OTHER -> t

\* C9: the warnings transformDatabase returns name each type the mapper did
\* not recognize exactly once, however many columns and tables use it, and
\* nothing else; every column of such a type has the type unknown at its core.
C9_WarningsOncePerUnknownType ==
  Returned =>
    /\ {warnings[i].pgType : i \in 1..Len(warnings)} = UnrecognizedNames
    /\ Len(warnings) = Cardinality(UnrecognizedNames)
    /\ \A i \in 1..Len(warnings) : warnings[i].type = "unknown_type"
    /\ Len(tableInterfaces) = Len(filteredTables)
    /\ \A p \in MappedPositions :
         LET c == filteredTables[p[1]].columns[p[2]]
             type == tableInterfaces[p[1]].properties[p[2]].type
         IN /\ Unrecognized(c) => CoreType(type) = Primitive("unknown")
            /\ (ReachesMapper(c) /\ ~Unrecognized(c)) => CoreType(type) # Primitive("unknown")

\* two tables were transformed, at least three of their columns have the
\* unknown type `geometry`, and it is named by one warning
C9_Witness ==
  /\ Returned
  /\ Len(filteredTables) = 2
  /\ Cardinality({p \in MappedPositions :
                    /\ Unrecognized(filteredTables[p[1]].columns[p[2]])
                    /\ BaseName(filteredTables[p[1]].columns[p[2]].dataType) = s_geometry}) >= 3
  /\ Cardinality({i \in 1..Len(warnings) : warnings[i].pgType = s_geometry}) = 1

-----------------------------------------------------------------------------
(* transformDatabase on inputs whose names meet after casing: SpecNaming *)

s_user == <<"u","s","e","r">>
s_auth_status == <<"a","u","t","h","_","s","t","a","t","u","s">>
s_STATUS == <<"S","T","A","T","U","S">>
s_json_values == <<"j","s","o","n","_","v","a","l","u","e","s">>

e_public_auth_status == Enum(s_public, s_auth_status, <<s_inactive>>)
e_STATUS == Enum(s_public, s_STATUS, <<s_active>>)
e_user == Enum(s_public, s_user, <<s_active>>)

\* the (schema, name) pairs of a list are pairwise distinct
DistinctIdentities(list) ==
  \A i, j \in 1..Len(list) :
    i # j => <<list[i].schema, list[i].name>> # <<list[j].schema, list[j].name>>

NamingEnumLists ==
  { <<>>, <<e_status>>, <<e_auth_status, e_status>>,
    <<e_auth_status, e_public_auth_status>>, <<e_status, e_STATUS>>,
    <<e_auth_role, e_user>> }

NamingTableUniverse ==
  { Table(s_public, s_users, FALSE, FirstColumns(<<c_status, c_id>>, MaxColumns)),
    Table(s_auth, s_users, FALSE, FirstColumns(<<c_id>>, MaxColumns)),
    Table(s_public, s_user, FALSE, FirstColumns(<<c_kind, c_id>>, MaxColumns)),
    Table(s_public, s_json_values, FALSE, FirstColumns(<<c_id, c_path>>, MaxColumns)),
    Table(s_public, s_posts, FALSE, FirstColumns(<<c_id, c_status>>, MaxColumns)) }

NamingInit ==
  /\ metadata \in [tables : DistinctSeqs(NamingTableUniverse, MaxTables),
                   enums : NamingEnumLists]
  /\ dbOptions \in {Undefined, Some(Options(TRUE, Undefined, Undefined))}
  /\ pc = "idle"
  /\ declarations = <<>>
  /\ unknownTypes = <<>>
  /\ filteredTables = <<>>
  /\ tableInterfaces = <<>>
  /\ warnings = <<>>
  /\ output = Undefined
  /\ runs = 0
  /\ firstResult = Undefined
  /\ zodProgram = Undefined
  /\ zodOutput = Undefined
  /\ zodRuns = 0
  /\ firstZodOutput = Undefined

InitNaming == NamingInit /\ FilterIdle /\ ColumnIdle /\ ParseIdle /\ SerializeIdle /\ CliIdle /\ RunsIdle

SpecNaming == InitNaming /\ [][NextDb]_vars

\* the enum loop of the current call has run
EnumsPushed == pc \in {"filter", "tables", "returned"} \/ (pc = "idle" /\ runs > 0)

\* the declarations the enum loop pushed, in the order of metadata.enums
EnumDeclarations ==
  SubSeq(declarations, Len(Preamble) + 1, Len(Preamble) + Len(metadata.enums))

\* C11 (as claimed): when the enums of the input have pairwise distinct
\* (schema, name), the declarations the resolver names for them have pairwise
\* distinct names.
C11_DistinctEnumNames ==
  (EnumsPushed /\ DistinctIdentities(metadata.enums)) =>
    \A i, j \in 1..Len(metadata.enums) :
      i # j => EnumDeclarations[i].name # EnumDeclarations[j].name

\* the positions of the declarations that declare a name (an import declares
\* none of its own)
NamedPositions == {k \in 1..Len(declarations) : declarations[k].kind # "import"}

\* C12 (as claimed): when the tables of the input have pairwise distinct
\* (schema, name), no two declarations of the returned Program share a name
\* and no two properties of the DB interface share a key.
C12_NoNameCollision ==
  (Returned /\ DistinctIdentities(metadata.tables)) =>
    /\ \A i, j \in NamedPositions :
         i # j => declarations[i].name # declarations[j].name
    /\ \A i, j \in 1..Len(DbInterface.properties) :
         i # j => DbInterface.properties[i].name # DbInterface.properties[j].name

\* what the formulas below read off the references of a Program

\* the declared or imported name a generic node's name stands for
DeclaredAs(name) ==
  CASE name = "Generated" -> <<"Generated<T>">>
    [] name = "ArrayType" -> <<"ArrayType<T>">>
    [] OTHER -> <<name>>

\* the names a type refers to through its reference and generic nodes
RECURSIVE RefsOf(_)
RefsOf(t) ==
  CASE t.kind = "reference" -> {t.name}
    [] t.kind = "generic" ->
         {DeclaredAs(t.name)}
           \cup UNION {RefsOf(t.typeArguments[i]) : i \in 1..Len(t.typeArguments)}
    [] t.kind = "union" -> UNION {RefsOf(t.types[i]) : i \in 1..Len(t.types)}
    [] t.kind = "array" -> RefsOf(t.elementType)
    [] OTHER -> {}

DeclarationRefs(d) ==
  CASE d.kind = "typeAlias" -> RefsOf(d.type)
    [] d.kind = "interface" ->
         UNION {RefsOf(d.properties[i].type) : i \in 1..Len(d.properties)}
    [] OTHER -> {}

\* the names declared or imported by the declarations before position k
NamesBefore(k) ==
  UNION {IF declarations[j].kind = "import" THEN Range(declarations[j].imports)
         ELSE {declarations[j].name} : j \in 1..(k - 1)}

RefersBackOnly(k) == DeclarationRefs(declarations[k]) \subseteq NamesBefore(k)

\* C13 (as claimed): in the returned Program every declaration refers only to
\* names declared or imported earlier in the list.
C13_NoForwardReference ==
  Returned => \A k \in 1..Len(declarations) : RefersBackOnly(k)

\* C13: in the returned Program every declaration pushed after the helper
\* preamble (enum aliases, table interfaces, DB) refers only to names declared
\* or imported earlier; within the preamble JsonArray, and no other
\* declaration, refers through a reference node to a name declared later.
C13_ForwardOnlyInPreamble ==
  Returned =>
    /\ \A k \in (Len(Preamble) + 1)..Len(declarations) : RefersBackOnly(k)
    /\ {declarations[k].name : k \in {j \in 1..Len(Preamble) : ~RefersBackOnly(j)}}
         = {<<"JsonArray">>}

\* a returned Program whose DB interface refers to a table interface, one of
\* whose properties refers to an enum's alias
C13_Witness ==
  /\ Returned
  /\ DbInterface.properties # <<>>
  /\ \E k \in (Len(Preamble) + 1)..Len(declarations) :
       /\ declarations[k].kind = "interface"
       /\ DeclarationRefs(declarations[k]) \cap
            {EnumDeclarations[i].name : i \in 1..Len(metadata.enums)} # {}

-----------------------------------------------------------------------------
(* The constraint normalizer on CHECK texts of many shapes: SpecShapes *)

MaxChain == 2

ShapeColumns == {<<"a">>, <<"b">>}

\* string literals as written between their quotes; the last one holds a
\* doubled quote
w_x == <<"x">>
w_no == <<"n", "o">>
w_its == <<"i", "t", "'", "'", "s">>
WrittenValues == {w_x, w_no, w_its}

Quoted(v) == <<"'">> \o v \o <<"'">>

\* a string literal, a column and an equality as each dialect's catalog
\* prints them
LiteralText(dialect, v) ==
  IF dialect = "postgres" THEN Quoted(v) \o <<":", ":", "t", "e", "x", "t">> ELSE Quoted(v)

ColumnText(dialect, c) ==
  CASE dialect = "mssql" -> <<"[">> \o c \o <<"]">>
    [] dialect = "mysql" -> <<Backtick>> \o c \o <<Backtick>>
    [] OTHER -> c

EqualityText(dialect, c, v) ==
  CASE dialect = "postgres" -> <<"(">> \o c \o <<" ", "=", " ">> \o LiteralText(dialect, v) \o <<")">>
    [] dialect = "mssql" -> ColumnText(dialect, c) \o <<"=">> \o LiteralText(dialect, v)
    [] OTHER -> ColumnText(dialect, c) \o <<" ", "=", " ">> \o LiteralText(dialect, v)

\* the whole CHECK text around a predicate
WholeText(dialect, predicate) ==
  CASE dialect = "postgres" -> <<"C", "H", "E", "C", "K", " ", "(">> \o predicate \o <<")">>
    [] dialect = "mssql" -> <<"(">> \o predicate \o <<")">>
    [] OTHER -> predicate

\* terms: a sequence of [col, value]
OrChainText(dialect, terms) ==
  WholeText(dialect,
    IF dialect = "postgres"
    THEN <<"(">> \o Join([k \in 1..Len(terms) |->
                            EqualityText(dialect, terms[k].col, terms[k].value)], s_OR)
           \o <<")">>
    ELSE Join([k \in 1..Len(terms) |->
                 EqualityText(dialect, terms[k].col, terms[k].value)], s_OR))

AndChainText(dialect, terms) ==
  WholeText(dialect,
    IF dialect = "postgres"
    THEN <<"(">> \o Join([k \in 1..Len(terms) |->
                            EqualityText(dialect, terms[k].col, terms[k].value)], <<" ", "A", "N", "D", " ">>)
           \o <<")">>
    ELSE Join([k \in 1..Len(terms) |->
                 EqualityText(dialect, terms[k].col, terms[k].value)], <<" ", "A", "N", "D", " ">>))

InPredicate(dialect, c, values) ==
  LET list == Join([k \in 1..Len(values) |-> LiteralText(dialect, values[k])], <<",", " ">>)
  IN CASE dialect = "postgres" ->
            <<"(">> \o c \o <<" ">> \o s_eqAny \o s_ARRAY \o list \o <<"]", ")", ")">>
       [] dialect = "mysql" -> ColumnText(dialect, c) \o <<" ", "i", "n", " ", "(">> \o list \o <<")">>
       [] OTHER -> ColumnText(dialect, c) \o <<" ", "I", "N", " ", "(">> \o list \o <<")">>

InListText(dialect, c, values) == WholeText(dialect, InPredicate(dialect, c, values))

\* two value lists on two columns, joined by AND
InConjunctionText(dialect, values) ==
  WholeText(dialect,
    IF dialect = "postgres"
    THEN <<"(">> \o InPredicate(dialect, <<"a">>, values) \o <<" ", "A", "N", "D", " ">>
           \o InPredicate(dialect, <<"b">>, values) \o <<")">>
    ELSE InPredicate(dialect, <<"a">>, values) \o <<" ", "A", "N", "D", " ">>
           \o InPredicate(dialect, <<"b">>, values))

\* one comparison of a column with an operand
ComparisonText(dialect, c, op, operand) ==
  CASE dialect = "postgres" -> <<"(">> \o c \o <<" ">> \o op \o <<" ">> \o operand \o <<")">>
    [] dialect = "mssql" -> ColumnText(dialect, c) \o op \o operand
    [] OTHER -> ColumnText(dialect, c) \o <<" ">> \o op \o <<" ">> \o operand

NumberOperand(dialect, digits) ==
  IF dialect = "mssql" THEN <<"(">> \o digits \o <<")">> ELSE digits

s_ge == <<">", "=">>
s_le == <<"<", "=">>
s_lt == <<"<">>
s_AND == <<" ", "A", "N", "D", " ">>

\* range comparisons: one bound, two bounds joined by AND, bounds given as
\* string literals, and two bounds joined by OR
RangeTexts(dialect) ==
  LET lower(c) == ComparisonText(dialect, c, s_ge, NumberOperand(dialect, <<"0">>))
      upper(c) == ComparisonText(dialect, c, s_le, NumberOperand(dialect, <<"1", "0", "0">>))
      from(c, v) == ComparisonText(dialect, c, s_ge, LiteralText(dialect, v))
      upTo(c, v) == ComparisonText(dialect, c, s_le, LiteralText(dialect, v))
      both(p, sep, q) == IF dialect = "postgres" THEN <<"(">> \o p \o sep \o q \o <<")">>
                         ELSE p \o sep \o q
  IN UNION {{ WholeText(dialect, lower(c)),
              WholeText(dialect, both(lower(c), s_AND, upper(c))),
              WholeText(dialect, from(c, w_x)),
              WholeText(dialect, both(from(c, w_no), s_AND, upTo(c, w_x))),
              WholeText(dialect, both(upTo(c, w_no), s_OR, from(c, w_x))) }
            : c \in ShapeColumns}

\* LIKE and regular-expression predicates
PatternTexts(dialect) ==
  CASE dialect = "postgres" ->
         { <<"C", "H", "E", "C", "K", " ", "(", "(", "a", " ", "~", "~", " ", "'", "%", "x", "%", "'", ":", ":", "t", "e", "x", "t", ")", ")">>, <<"C", "H", "E", "C", "K", " ", "(", "(", "a", " ", "~", "*", " ", "'", "^", "[", "a", "-", "z", "]", "+", "$", "'", ":", ":", "t", "e", "x", "t", ")", ")">>,
           <<"C", "H", "E", "C", "K", " ", "(", "(", "(", "a", " ", "~", "~", " ", "'", "x", "%", "'", ":", ":", "t", "e", "x", "t", ")", " ", "O", "R", " ", "(", "a", " ", "~", "~", " ", "'", "n", "o", "%", "'", ":", ":", "t", "e", "x", "t", ")", ")", ")">> }
    [] dialect = "mssql" -> { <<"(", "[", "a", "]", " ", "L", "I", "K", "E", " ", "'", "%", "x", "%", "'", ")">>, <<"(", "[", "a", "]", " ", "L", "I", "K", "E", " ", "'", "x", "%", "'", " ", "O", "R", " ", "[", "a", "]", " ", "L", "I", "K", "E", " ", "'", "n", "o", "%", "'", ")">> }
    [] dialect = "sqlite" -> { <<"a", " ", "L", "I", "K", "E", " ", "'", "%", "x", "%", "'">>, <<"a", " ", "G", "L", "O", "B", " ", "'", "x", "*", "'">>,
                               <<"a", " ", "L", "I", "K", "E", " ", "'", "x", "%", "'", " ", "O", "R", " ", "a", " ", "L", "I", "K", "E", " ", "'", "n", "o", "%", "'">> }
    [] dialect = "mysql" -> { <<Backtick, "a", Backtick, " ", "L", "I", "K", "E", " ", "'", "%", "x", "%", "'">>, <<"r", "e", "g", "e", "x", "p", "_", "l", "i", "k", "e", "(", Backtick, "a", Backtick, ",", "'", "^", "x", "'", ")">> }

\* length and other function-call predicates
FunctionTexts(dialect) ==
  CASE dialect = "postgres" ->
         { <<"C", "H", "E", "C", "K", " ", "(", "(", "l", "e", "n", "g", "t", "h", "(", "(", "a", ")", ":", ":", "t", "e", "x", "t", ")", " ", "<", " ", "1", "0", "0", ")", ")">>, <<"C", "H", "E", "C", "K", " ", "(", "(", "c", "h", "a", "r", "_", "l", "e", "n", "g", "t", "h", "(", "a", ")", " ", ">", " ", "0", ")", ")">> }
    [] dialect = "mssql" -> { <<"(", "l", "e", "n", "(", "[", "a", "]", ")", "<", "(", "1", "0", "0", ")", ")">>, <<"(", "d", "a", "t", "a", "l", "e", "n", "g", "t", "h", "(", "[", "a", "]", ")", ">", "(", "0", ")", ")">> }
    [] dialect = "sqlite" -> { <<"l", "e", "n", "g", "t", "h", "(", "a", ")", " ", "<", " ", "1", "0", "0">>, <<"t", "y", "p", "e", "o", "f", "(", "a", ")", " ", "=", " ", "'", "t", "e", "x", "t", "'">> }
    [] dialect = "mysql" -> { <<"c", "h", "a", "r", "_", "l", "e", "n", "g", "t", "h", "(", Backtick, "a", Backtick, ")", " ", "<", " ", "1", "0", "0">>, <<"(", "l", "e", "n", "g", "t", "h", "(", Backtick, "a", Backtick, ")", " ", ">", " ", "0", ")">> }

\* value lists without a value
EmptyListTexts(dialect) ==
  {InListText(dialect, c, <<>>) : c \in ShapeColumns}
    \cup (IF dialect = "postgres" THEN {<<"C", "H", "E", "C", "K", " ", "(", "(", "a", " ", "=", " ", "A", "N", "Y", " ", "(", "A", "R", "R", "A", "Y", "[", "]", ")", ")", ")">>}
          ELSE {ColumnText(dialect, <<"a">>) \o <<" ", "I", "N", " ", "(", " ", " ", ")">>})

\* the shapes that are no value list
UnrecognizedTexts(dialect) ==
  RangeTexts(dialect) \cup PatternTexts(dialect) \cup FunctionTexts(dialect)
    \cup EmptyListTexts(dialect)

Terms == [col : ShapeColumns, value : WrittenValues]

TermLists == UNION {[1..n -> Terms] : n \in 2..MaxChain}

NamesOneColumn(terms) == \A k \in 1..Len(terms) : terms[k].col = terms[1].col

\* predicates over more than one column: a comparison of two columns, an OR
\* chain or a conjunction of equalities on different columns, and a
\* conjunction of value lists on different columns
MultiColumnTexts(dialect) ==
  { WholeText(dialect, ComparisonText(dialect, <<"a">>, s_lt, ColumnText(dialect, <<"b">>))) }
    \cup {OrChainText(dialect, terms) : terms \in {t \in TermLists : ~NamesOneColumn(t)}}
    \cup {AndChainText(dialect, terms) : terms \in {t \in TermLists : ~NamesOneColumn(t)}}
    \cup {InConjunctionText(dialect, <<v>>) : v \in WrittenValues}

ValueSeqs == UNION {[1..n -> WrittenValues] : n \in 1..MaxChain}

\* the two value-list shapes on one column
OneColumnInTexts(dialect) ==
  {InListText(dialect, c, values) : c \in ShapeColumns, values \in ValueSeqs}

OneColumnOrTexts(dialect) ==
  {OrChainText(dialect, terms) : terms \in {t \in TermLists : NamesOneColumn(t)}}

\* texts cut short: every proper prefix of a value list and of an OR chain
Prefixes(text) == {SubSeq(text, 1, n) : n \in 0..(Len(text) - 1)}

MalformedTexts(dialect) ==
  Prefixes(InListText(dialect, <<"a">>, <<w_x, w_its>>))
    \cup Prefixes(OrChainText(dialect, <<[col |-> <<"a">>, value |-> w_its],
                                         [col |-> <<"a">>, value |-> w_x]>>))
    \cup { <<" ">>, <<" ", " ">>, <<")">>, <<"(", "(">>, <<"'">>, <<" ", "O", "R", " ">>, <<" ", "I", "N", " ", "(">> }

ShapeTexts(dialect) ==
  UnrecognizedTexts(dialect) \cup MultiColumnTexts(dialect)
    \cup OneColumnInTexts(dialect) \cup OneColumnOrTexts(dialect)
    \cup MalformedTexts(dialect)

ShapesInit ==
  /\ parser \in Dialects
  /\ definition \in ShapeTexts(parser)
  /\ parsed = Undefined

InitShapes == ShapesInit /\ FilterIdle /\ ColumnIdle /\ DbIdle /\ SerializeIdle /\ CliIdle /\ RunsIdle

SpecShapes == InitShapes /\ [][NextParse]_vars

\* a ParsedCheckConstraint: boolean, or a non-empty list of strings or numbers
IsParsedCheckConstraint(r) ==
  \/ r = [type |-> "boolean"]
  \/ /\ r.type \in {"string", "number"}
     /\ DOMAIN r = {"type", "values"}
     /\ Len(r.values) > 0
     /\ \A k \in 1..Len(r.values) :
          IF r.type = "number" THEN r.values[k] \in Int
          ELSE \A n \in 1..Len(r.values[k]) : r.values[k][n] \in STRING

\* C14 (as claimed): on every text, empty and cut-short ones included, each
\* dialect parser returns null or a ParsedCheckConstraint, and it returns null
\* on range comparisons, LIKE and regular-expression predicates, length and
\* function-call predicates and empty value lists.
C14_NullOnUnrecognizedShapes ==
  IsDefined(parsed) =>
    /\ Get(parsed) = Null \/ IsParsedCheckConstraint(ConstraintOf(Get(parsed)))
    /\ definition \in UnrecognizedTexts(parser) => Get(parsed) = Null

\* C15 (as claimed): a CHECK text whose comparisons name more than one column
\* (a comparison of two columns, an OR chain or a conjunction on different
\* columns) is unrecognized: every dialect parser returns null for it.
C15_MultiColumnNull ==
  (IsDefined(parsed) /\ definition \in MultiColumnTexts(parser)) => Get(parsed) = Null

\* the string a written literal denotes: each doubled quote is one quote
RECURSIVE Denoted(_)
Denoted(w) ==
  IF w = <<>> THEN <<>>
  ELSE IF Len(w) >= 2 /\ w[1] = "'" /\ w[2] = "'"
    THEN <<"'">> \o Denoted(SubSeq(w, 3, Len(w)))
  ELSE <<w[1]>> \o Denoted(Tail(w))

StringConstraint(values) == [type |-> "string", values |-> values]

\* the dialects whose parser has an OR-chain shape
OrChainDialects == {"postgres", "mssql"}

\* C16 (as claimed): a value list and an OR chain of equalities on one column
\* give the denoted strings of their literals, all of them and in order, in
\* every dialect that recognizes the shape; a doubled quote gives one quote.
C16_EscapedQuotesKept ==
  IsDefined(parsed) =>
    /\ \A c \in ShapeColumns, values \in ValueSeqs :
         definition = InListText(parser, c, values) =>
           ConstraintOf(Get(parsed))
             = StringConstraint([k \in 1..Len(values) |-> Denoted(values[k])])
    /\ \A terms \in {t \in TermLists : NamesOneColumn(t)} :
         (parser \in OrChainDialects /\ definition = OrChainText(parser, terms)) =>
           Get(parsed) = StringConstraint([k \in 1..Len(terms) |-> Denoted(terms[k].value)])

\* the modes in which a Zod Program holds a schema declaration of the table,
\* and those in which it holds an infer export of it
ZodSchemaModes(program, t) ==
  {mode \in ZodModes :
     \E k \in 1..Len(program.declarations) :
       /\ program.declarations[k].kind = "zod-schema-declaration"
       /\ program.declarations[k].name = getSchemaName(InterfaceName(t), mode)}

ZodInferModes(program, t) ==
  {mode \in ZodModes :
     \E k \in 1..Len(program.declarations) :
       /\ program.declarations[k].kind = "zod-infer-export"
       /\ program.declarations[k].typeName = getTypeName(InterfaceName(t), mode)}

\* C17 (as claimed): on one input and one set of patterns the tables with Zod
\* schemas are the tables with interfaces, and a partition table or a table
\* the patterns exclude has no schema declaration and no infer export.
C17_SameTableSelection ==
  (Returned /\ zodRuns > 0) =>
    LET program == Get(zodProgram)
    IN \A i \in 1..Len(metadata.tables) :
         LET t == metadata.tables[i]
         IN /\ (ZodSchemaModes(program, t) # {})
                 <=> (InterfacesNamed(InterfaceName(t)) # {})
            /\ ~SurvivesFiltering(t) =>
                 (ZodSchemaModes(program, t) = {} /\ ZodInferModes(program, t) = {})

-----------------------------------------------------------------------------
(* The two back-ends on one column (SpecColumn) *)

\* the emitted type has a null arm
HasNullArm(t) ==
  t.kind = "union" /\ \E i \in 1..Len(t.types) : IsNullArm(t.types[i])

\* how many array levels a type has
RECURSIVE ArrayDepth(_)
ArrayDepth(t) ==
  CASE t.kind = "array" -> 1 + ArrayDepth(t.elementType)
    [] t.kind = "generic" /\ t.name = "ArrayType" -> 1 + ArrayDepth(t.typeArguments[1])
    [] OTHER -> 0

RECURSIVE ZodArrayDepth(_)
ZodArrayDepth(schema) ==
  IF schema.kind = "zod-array" THEN 1 + ZodArrayDepth(schema.element) ELSE 0

\* a schema carries a modifier
HasModifier(schema, modifier) ==
  schema.kind = "zod-modified" /\ modifier \in Range(schema.modifiers)

\* the values a type enumerates: the values of its literal arms, in order
EnumeratedValues(arms) ==
  IF \A i \in 1..Len(arms) : arms[i].kind = "literal"
  THEN [i \in 1..Len(arms) |-> arms[i].value]
  ELSE <<>>

\* the values a schema enumerates: those of an enum, or of a union of literals
ZodEnumeratedValues(schema) ==
  CASE schema.kind = "zod-enum" ->
         [i \in 1..Len(schema.values) |-> StringValue(schema.values[i])]
    [] schema.kind = "zod-union"
         /\ \A i \in 1..Len(schema.schemas) : schema.schemas[i].kind = "zod-literal" ->
         [i \in 1..Len(schema.schemas) |-> schema.schemas[i].value]
    [] OTHER -> <<>>

-----------------------------------------------------------------------------
(* The three schemas of a table (SpecDb) *)

\* the positions of a Zod Program that declare a schema of the name
ZodSchemaPositions(program, name) ==
  {k \in 1..Len(program.declarations) :
     /\ program.declarations[k].kind = "zod-schema-declaration"
     /\ program.declarations[k].name = name}

\* the properties of the one schema of the name
ZodSchemaProperties(program, name) ==
  program.declarations[CHOOSE k \in ZodSchemaPositions(program, name) : TRUE]
    .schema.properties

ZeroOneUnion ==
  ZodUnion(<<[kind |-> "zod-literal", value |-> NumberValue(0)],
             [kind |-> "zod-literal", value |-> NumberValue(1)]>>)

ZeroOneTransform ==
  [kind |-> "zod-transform", schema |-> ZeroOneUnion, transformFn |-> <<"v => v === 1">>]

\* options.noBooleanCoerce
NoBooleanCoerce ==
  /\ IsDefined(colOptions)
  /\ "noBooleanCoerce" \in DOMAIN Get(colOptions)
  /\ Get(colOptions).noBooleanCoerce

\* transformColumnToZod has run on a column that carries a boolean CHECK
\* constraint and names no enum
BooleanConstraintEmitted ==
  /\ IsDefined(zodProperty)
  /\ ~NamesEnum
  /\ column.checkConstraint = Some([type |-> "boolean"])

\* C20 (as claimed): the schema of a column with a boolean CHECK constraint
\* is the union of the literals 0 and 1 followed by the transform v => v === 1,
\* or the union alone when noBooleanCoerce is set, and the nullable modifier
\* of a nullable column is applied around it.
C20_BooleanUnionTransform ==
  BooleanConstraintEmitted =>
    /\ EmittedSchema = IF NoBooleanCoerce THEN ZeroOneUnion ELSE ZeroOneTransform
    /\ column.isNullable => HasModifier(Get(zodProperty).schema, "nullable")

-----------------------------------------------------------------------------
(* The helper declarations of a Program (SpecDb) *)

\* the dialect-specific helper aliases and interfaces of the postgres dialect
HelperNames ==
  { <<"T","i","m","e","s","t","a","m","p">>, <<"I","n","t","8">>,
    <<"N","u","m","e","r","i","c">>, <<"I","n","t","e","r","v","a","l">>,
    <<"P","o","i","n","t">>, <<"C","i","r","c","l","e">>, s_IPostgresInterval }

\* the positions of the declarations of the name
DeclarationsOf(name) ==
  {k \in 1..Len(declarations) :
     declarations[k].kind \in {"typeAlias", "interface"} /\ declarations[k].name = name}

\* the names the column types of the emitted table interfaces refer to,
\* through array elements and generic arguments as well
ColumnTypeRefs ==
  UNION {DeclarationRefs(declarations[k]) :
           k \in {j \in (Len(Preamble) + 1)..(Len(declarations) - 1) :
                    declarations[j].kind = "interface"}}

\* C21 (as claimed): the returned Program declares a dialect-specific helper
\* alias or interface if and only if an emitted column type refers to it.
C21_HelpersDeclaredIffUsed ==
  Returned =>
    LET used == ColumnTypeRefs
    IN \A h \in HelperNames : (DeclarationsOf(h) # {}) <=> (h \in used)

-----------------------------------------------------------------------------
(* Array columns in the type mapper (SpecColumn) *)

\* the column is handed to the type mapper, and as an array
IsArrayColumn ==
  /\ ~NamesEnum
  /\ ~HasConstraint
  /\ (column.isArray \/ EndsWith(column.dataType, s_brackets))

\* the name of the element's type: the column's without its last brackets
ElementTypeName ==
  IF EndsWith(column.dataType, s_brackets)
  THEN SubSeq(column.dataType, 1, Len(column.dataType) - 2)
  ELSE column.dataType

\* the element's type mapped as a column that is neither an array nor nullable
ElementType ==
  mapPostgresType(ElementTypeName,
                  [isNullable |-> FALSE, isArray |-> FALSE, unknownTypes |-> <<>>]).type

\* the emitted type inside the Generated qualifier and the null union
EmittedArray ==
  LET type == Get(property).type
      inner == IF column.isAutoIncrement \/ column.hasDefaultValue
               THEN type.typeArguments[1] ELSE type
  IN IF column.isNullable THEN inner.types[1] ELSE inner

SimplePrimitives == {Primitive("boolean"), Primitive("number"), Primitive("string")}

-----------------------------------------------------------------------------
(* utils/sqlite-ddl-parser: parseSqliteTableDDL *)

s_check == <<"c", "h", "e", "c", "k">>

\* checkRegex = /CHECK\s*\(\s*(\w+)\s+IN\s*\(([^)]+)\)\s*\)/gi at index i:
\* the end of the match and the two captured groups
CheckInAt(s, i) ==
  LET p1 == RunEnd(s, i + 5, "space") + 1
      c1 == RunEnd(s, p1 + 1, "space") + 1
      w == RunEnd(s, c1, "word")
      sp == RunEnd(s, w + 1, "space")
      open == RunEnd(s, sp + 3, "space") + 1
      close == RunEnd(s, open + 1, "notCloseParen") + 1
      last == RunEnd(s, close + 1, "space") + 1
  IN IF /\ i + 4 <= Len(s) /\ ToLowerCase(SubSeq(s, i, i + 4)) = s_check
        /\ p1 <= Len(s) /\ s[p1] = "("
        /\ c1 <= Len(s) /\ w >= c1
        /\ sp > w
        /\ sp + 2 <= Len(s) /\ s[sp + 1] \in {"I", "i"} /\ s[sp + 2] \in {"N", "n"}
        /\ open <= Len(s) /\ s[open] = "("
        /\ close <= Len(s) /\ close > open + 1
        /\ last <= Len(s) /\ s[last] = ")"
     THEN Some([end |-> last,
                columnName |-> SubSeq(s, c1, w),
                valuesPart |-> SubSeq(s, open + 1, close - 1)])
     ELSE Undefined

\* the while loop over checkRegex.exec(sql), from index `from`
RECURSIVE ExecCheckIn(_, _)
ExecCheckIn(s, from) ==
  LET starts == {i \in from..Len(s) : IsDefined(CheckInAt(s, i))}
  IN IF starts = {} THEN <<>>
     ELSE LET m == Get(CheckInAt(s, Min(starts)))
          IN << [columnName |-> m.columnName,
                 definition |-> m.columnName \o <<" ", "I", "N", " ", "(">> \o m.valuesPart \o <<")">>] >>
               \o ExecCheckIn(s, m.end + 1)

parseSqliteTableDDL(sql) == ExecCheckIn(sql, 1)

-----------------------------------------------------------------------------
(* parseSqliteTableDDL on the creation text of a table: SpecDdl *)

MaxFragments == 2

\* the value lists of the CHECK fragments, as written between the parentheses
DdlLists ==
  { <<"'", "a", "'", ",", " ", "'", "b", "'">>, <<"1", ",", " ", "2", ",", " ", "3">>, <<"0", ",", " ", "1">>, <<"'", "i", "t", "'", "'", "s", "'", ",", " ", "'", "o", "k", "'">>, <<"'", "a", ",", "b", "'">>, <<"'", "(", "a", "'", ",", " ", "'", "b", "'">>,
    <<"'", "a", ")", "'", ",", " ", "'", "b", "'">> }

\* how a fragment is written: upper or lower case, with white space inside
\* the parentheses, or as a table-level constraint
DdlStyles == {"inline", "lower", "spaced", "table"}

DdlColumn(style) ==
  CASE style = "inline" -> <<"s", "t", "a", "t", "u", "s">>
    [] style = "lower" -> <<"l", "v", "l">>
    [] style = "spaced" -> <<"i", "s", "_", "o", "n">>
    [] style = "table" -> <<"k", "i", "n", "d", "2">>

\* the items of a table's creation text: a column with or without a CHECK, or
\* a table-level CHECK
InFragments == [kind : {"in"}, style : DdlStyles, list : DdlLists]

OtherFragments ==
  { [kind |-> "other", text |-> <<"i", "d", " ", "I", "N", "T", "E", "G", "E", "R", " ", "P", "R", "I", "M", "A", "R", "Y", " ", "K", "E", "Y">>],
    [kind |-> "other", text |-> <<"v", " ", "I", "N", "T", " ", "C", "H", "E", "C", "K", "(", "v", " ", ">", "=", " ", "0", " ", "A", "N", "D", " ", "v", " ", "<", "=", " ", "9", ")">>],
    [kind |-> "other", text |-> <<"n", "a", "m", "e", " ", "T", "E", "X", "T", " ", "C", "H", "E", "C", "K", "(", "l", "e", "n", "g", "t", "h", "(", "n", "a", "m", "e", ")", " ", ">", " ", "1", ")">>] }

DdlFragments == InFragments \cup OtherFragments

CheckFragmentText(f) ==
  LET c == DdlColumn(f.style)
  IN CASE f.style = "inline" ->
            c \o <<" ", "T", "E", "X", "T", " ", "N", "O", "T", " ", "N", "U", "L", "L", " ", "C", "H", "E", "C", "K", "(">> \o c \o <<" ", "I", "N", " ", "(">> \o f.list \o <<")", ")">>
       [] f.style = "lower" ->
            c \o <<" ", "t", "e", "x", "t", " ", "c", "h", "e", "c", "k", "(">> \o c \o <<" ", "i", "n", " ", "(">> \o f.list \o <<")", ")">>
       [] f.style = "spaced" ->
            c \o <<" ", "I", "N", "T", " ", "C", "H", "E", "C", "K", " ", "(", " ">> \o c \o <<" ", " ", "I", "N", " ", "(", " ">> \o f.list \o <<" ", ")", " ", ")">>
       [] f.style = "table" ->
            <<"C", "H", "E", "C", "K", "(">> \o c \o <<" ", "I", "N", " ", "(">> \o f.list \o <<")", ")">>

FragmentText(f) == IF f.kind = "in" THEN CheckFragmentText(f) ELSE f.text

RECURSIVE ItemsText(_)
ItemsText(fs) ==
  IF fs = <<>> THEN <<>>
  ELSE IF Len(fs) = 1 THEN FragmentText(fs[1])
  ELSE FragmentText(fs[1]) \o <<",", "\n", " ">> \o ItemsText(Tail(fs))

DdlText(fs) == <<"C", "R", "E", "A", "T", "E", " ", "T", "A", "B", "L", "E", " ", "t", " ", "(">> \o ItemsText(fs) \o <<")">>

DdlFragmentLists == SeqsUpTo(DdlFragments, MaxFragments) \ {<<>>}

\* the variables of the constraint normalizer hold the creation text and the
\* entries returned for it
DdlInit ==
  /\ parser = "sqlite-ddl"
  /\ definition \in {DdlText(fs) : fs \in DdlFragmentLists}
  /\ parsed = Undefined

ParseSqliteTableDDL ==
  /\ parser = "sqlite-ddl" /\ ~IsDefined(parsed)
  /\ parsed' = Some(parseSqliteTableDDL(definition))
  /\ UNCHANGED <<definition, parser>>

InitDdl == DdlInit /\ FilterIdle /\ ColumnIdle /\ DbIdle /\ SerializeIdle /\ CliIdle /\ RunsIdle
NextDdl == ParseSqliteTableDDL /\ UNCHANGED <<filterVars, columnVars, dbVars, serializeVars, cliVars, runVars>>
SpecDdl == InitDdl /\ [][NextDdl]_vars

\* the entry a CHECK(col IN (...)) fragment stands for: its column, and the
\* list as written between the parentheses
FragmentEntry(f) ==
  LET c == DdlColumn(f.style)
      written == IF f.style = "spaced" THEN <<" ">> \o f.list \o <<" ">> ELSE f.list
  IN [columnName |-> c, definition |-> c \o <<" ", "I", "N", " ", "(">> \o written \o <<")">>]

RECURSIVE ExpectedEntries(_)
ExpectedEntries(fs) ==
  IF fs = <<>> THEN <<>>
  ELSE (IF fs[1].kind = "in" THEN <<FragmentEntry(fs[1])>> ELSE <<>>)
         \o ExpectedEntries(Tail(fs))

\* the fragment lists a creation text was written from
WrittenFrom(text) == {fs \in DdlFragmentLists : DdlText(fs) = text}

\* C23 (as claimed): parseSqliteTableDDL returns one entry for every
\* CHECK(col IN (...)) fragment of the creation text, in the order of the
\* text and under the fragment's column, whatever the quoted literals of the
\* list contain, and no entry for any other CHECK.
C23_OneEntryPerInFragment ==
  (parser = "sqlite-ddl" /\ IsDefined(parsed)) =>
    \A fs \in WrittenFrom(definition) : Get(parsed) = ExpectedEntries(fs)

-----------------------------------------------------------------------------
(* String literals through both serializers: SpecEscape *)

MaxValueLen == 3

\* the five characters escapeString replaces, and two it leaves alone
EscapeAlphabet == {"\\", "'", "\n", "\r", "\t", "a", "n"}

EscapeInit ==
  /\ serInput \in {Some(v) : v \in SeqsUpTo(EscapeAlphabet, MaxValueLen)}
  /\ serText = Undefined
  /\ serZodText = Undefined

\* serializeType on the literal node of the value
SerializeLiteral ==
  /\ ~IsDefined(serText)
  /\ serText' = Some(serializeType(Literal(StringValue(Get(serInput)))))
  /\ UNCHANGED <<serInput, serZodText>>

\* serializeZodSchema on the literal node of the value, or on the enum node
\* of the value alone
SerializeZodLiteral ==
  /\ ~IsDefined(serZodText)
  /\ \E node \in {[kind |-> "zod-literal", value |-> StringValue(Get(serInput))],
                  [kind |-> "zod-enum", values |-> <<Get(serInput)>>]} :
       serZodText' = Some(serializeZodSchema(node))
  /\ UNCHANGED <<serInput, serText>>

InitEscape == EscapeInit /\ FilterIdle /\ ColumnIdle /\ ParseIdle /\ DbIdle /\ CliIdle /\ RunsIdle
NextEscape ==
  \/ SerializeLiteral /\ UNCHANGED <<filterVars, columnVars, parseVars, dbVars, cliVars, runVars>>
  \/ SerializeZodLiteral /\ UNCHANGED <<filterVars, columnVars, parseVars, dbVars, cliVars, runVars>>
SpecEscape == InitEscape /\ [][NextEscape]_vars

\* the escape sequence of one character
EscapeOnce(c) ==
  CASE c = "\\" -> <<"\\", "\\">>
    [] c = "'" -> <<"\\", "'">>
    [] c = "\n" -> <<"\\", "n">>
    [] c = "\r" -> <<"\\", "r">>
    [] c = "\t" -> <<"\\", "t">>
    [] OTHER -> <<c>>

\* the character an escape sequence's second character stands for
EscapedBy(c) ==
  CASE c = "n" -> "\n"
    [] c = "r" -> "\r"
    [] c = "t" -> "\t"
    [] OTHER -> c

\* the string the body of a single-quoted literal denotes: undefined when
\* the body holds a bare quote or line break, or ends inside an escape
RECURSIVE DenotedBody(_)
DenotedBody(b) ==
  IF b = <<>> THEN Some(<<>>)
  ELSE IF b[1] \in {"'", "\n", "\r"} THEN Undefined
  ELSE IF b[1] = "\\"
    THEN IF Len(b) < 2 THEN Undefined
         ELSE LET rest == DenotedBody(SubSeq(b, 3, Len(b)))
              IN IF IsDefined(rest) THEN Some(<<EscapedBy(b[2])>> \o Get(rest))
                 ELSE Undefined
  ELSE LET rest == DenotedBody(Tail(b))
       IN IF IsDefined(rest) THEN Some(<<b[1]>> \o Get(rest)) ELSE Undefined

\* the string a single-quoted literal denotes
DenotedLiteral(t) ==
  IF Len(t) >= 2 /\ t[1] = "'" /\ t[Len(t)] = "'"
  THEN DenotedBody(SubSeq(t, 2, Len(t) - 1))
  ELSE Undefined

\* the literal inside z.literal(...) or z.enum([...])
ZodLiteralText(t) == SubSeq(t, 2, Len(t) - 1)

\* the literal with every character of the value escaped once, on its own
EscapedOnce(value) ==
  <<"'">> \o Flatten([i \in 1..Len(value) |-> EscapeOnce(value[i])]) \o <<"'">>

\* C24: the literal either serializer emits for a string value holds every
\* character of the value escaped exactly once (backslash, quote, newline,
\* carriage return and tab by their escape sequences, the backslash's
\* replacement made first), and denotes exactly the value.
C24_EscapedOnce ==
  /\ IsDefined(serText) =>
       /\ Get(serText) = EscapedOnce(Get(serInput))
       /\ DenotedLiteral(Get(serText)) = Some(Get(serInput))
  /\ IsDefined(serZodText) =>
       /\ ZodLiteralText(Get(serZodText)) = EscapedOnce(Get(serInput))
       /\ DenotedLiteral(ZodLiteralText(Get(serZodText))) = Some(Get(serInput))

\* a backslash followed by a quote has gone through both serializers
C24_Witness ==
  /\ serInput = Some(<<"\\", "'">>)
  /\ serText = Some(<<"'", "\\", "\\", "\\", "'", "'">>)
  /\ serZodText = Some(<<"z.enum([", "'", "\\", "\\", "\\", "'", "'", "])">>)

-----------------------------------------------------------------------------
(* Nested types through serializeType: SpecParens *)

MaxTypeDepth == 2

Intersection(types) == [kind |-> "intersection", types |-> types]
Tuple(elements) == [kind |-> "tuple", elements |-> elements]
Keyof(type) == [kind |-> "keyof", type |-> type]
IndexAccess(objectType, indexType) ==
  [kind |-> "indexAccess", objectType |-> objectType, indexType |-> indexType]
Conditional(checkType, extendsType, trueType, falseType) ==
  [kind |-> "conditional", checkType |-> checkType, extendsType |-> extendsType,
   trueType |-> trueType, falseType |-> falseType]

\* the type beside the child under inspection
Filler == Primitive("number")

LeafTypes ==
  { Primitive("string"), Reference(<<"T">>), [kind |-> "infer", name |-> <<"U">>] }

\* every parent of a child: each kind of node, the child at each position
ParentsOf(c) ==
  { Union(<<c, Filler>>), Union(<<Filler, c>>),
    Intersection(<<c, Filler>>), Intersection(<<Filler, c>>),
    ArrayNode(c), Generic("ArrayType", <<c>>), Tuple(<<c, Filler>>), Keyof(c),
    IndexAccess(c, Filler), IndexAccess(Filler, c),
    Conditional(c, Filler, Filler, Filler), Conditional(Filler, c, Filler, Filler),
    Conditional(Filler, Filler, c, Filler), Conditional(Filler, Filler, Filler, c) }

RECURSIVE TypesOfDepth(_)
TypesOfDepth(n) ==
  IF n = 0 THEN LeafTypes
  ELSE LET below == TypesOfDepth(n - 1)
       IN below \cup UNION {ParentsOf(c) : c \in below}

ParensInit ==
  /\ serInput \in {Some(t) : t \in TypesOfDepth(MaxTypeDepth)}
  /\ serText = Undefined
  /\ serZodText = Undefined

SerializeType ==
  /\ ~IsDefined(serText)
  /\ serText' = Some(serializeType(Get(serInput)))
  /\ UNCHANGED <<serInput, serZodText>>

InitParens == ParensInit /\ FilterIdle /\ ColumnIdle /\ ParseIdle /\ DbIdle /\ CliIdle /\ RunsIdle
NextParens == SerializeType /\ UNCHANGED <<filterVars, columnVars, parseVars, dbVars, cliVars, runVars>>
SpecParens == InitParens /\ [][NextParens]_vars

\* the children of a node, in the order of the text
ChildrenOf(t) ==
  CASE t.kind \in {"union", "intersection"} -> t.types
    [] t.kind = "array" -> <<t.elementType>>
    [] t.kind = "generic" -> t.typeArguments
    [] t.kind = "tuple" -> t.elements
    [] t.kind = "keyof" -> <<t.type>>
    [] t.kind = "indexAccess" -> <<t.objectType, t.indexType>>
    [] t.kind = "conditional" -> <<t.checkType, t.extendsType, t.trueType, t.falseType>>
    [] OTHER -> <<>>

\* the nestings that call for parentheses: parent kind, child kind
ParenthesizedNestings ==
  { <<"intersection", "union">>, <<"union", "intersection">>,
    <<"array", "union">>, <<"array", "intersection">> }

\* the number of parent/child pairs of a type that call for parentheses
RECURSIVE NestingsOf(_)
NestingsOf(t) ==
  LET children == ChildrenOf(t)
  IN SumSeq([i \in 1..Len(children) |->
               (IF <<t.kind, children[i].kind>> \in ParenthesizedNestings THEN 1 ELSE 0)
                 + NestingsOf(children[i])])

Occurrences(text, token) == Cardinality({i \in 1..Len(text) : text[i] = token})

\* C25: the text of a type holds one pair of parentheses for every union
\* directly inside an intersection, intersection directly inside a union, and
\* union or intersection that is an array's element, and no other; a child of
\* the type stands in parentheses exactly when its kind and the type's kind
\* form such a nesting.
C25_ParensOnlyWhereNeeded ==
  IsDefined(serText) =>
    LET type == Get(serInput)
        text == Get(serText)
        children == ChildrenOf(type)
    IN /\ Occurrences(text, "(") = NestingsOf(type)
       /\ Occurrences(text, ")") = NestingsOf(type)
       /\ \A i \in 1..Len(children) :
            Includes(text, <<"(">> \o serializeType(children[i]) \o <<")">>)
              <=> <<type.kind, children[i].kind>> \in ParenthesizedNestings

\* an intersection whose first member is a union has been serialized
C25_Witness ==
  /\ serInput = Some(Intersection(<<Union(<<Primitive("string"), Filler>>), Filler>>))
  /\ serText = Some(<<"(", "string", " | ", "number", ")", " & ", "number">>)

-----------------------------------------------------------------------------
(* Property names through both serializers: SpecNames *)

MaxNameLen == 2

NameAlphabet == {"a", "Z", "1", "_", "$", "-", " ", "'"}

\* every short name over the alphabet, some reserved words and some words
\* that differ from a reserved word by a letter or by case
PropertyNames ==
  SeqsUpTo(NameAlphabet, MaxNameLen)
    \cup { <<"d", "o">>, <<"i", "f">>, <<"i", "n">>, <<"a", "s">>, <<"c", "l", "a", "s", "s">>, <<"t", "y", "p", "e">>, <<"a", "w", "a", "i", "t">>, <<"d", "e", "f", "a", "u", "l", "t">>,
           <<"d", "o", "o">>, <<"C", "l", "a", "s", "s">>, <<"c", "l", "a", "s", "s", "e", "s">>, <<"i", "d">>, <<"u", "s", "e", "r", "_", "i", "d">>, <<"c", "r", "e", "a", "t", "e", "d", "-", "a", "t">>,
           <<"c", "o", "l", "u", "m", "n", " ", "n", "a", "m", "e">>, <<"1", "2", "3", "c", "o", "l", "u", "m", "n">> }

NamesInit ==
  /\ serInput \in {Some(name) : name \in PropertyNames}
  /\ serText = Undefined
  /\ serZodText = Undefined

\* serializeProperty on a property of the name
SerializeProperty ==
  /\ ~IsDefined(serText)
  /\ serText' = Some(serializeProperty([name |-> Get(serInput),
                                          type |-> Primitive("string"),
                                          optional |-> FALSE]))
  /\ UNCHANGED <<serInput, serZodText>>

\* serializeZodSchema on an object schema with one property of the name
SerializeZodProperty ==
  /\ ~IsDefined(serZodText)
  /\ serZodText' =
       Some(serializeZodSchema([kind |-> "zod-object",
                                properties |-> <<[name |-> Get(serInput),
                                                  schema |-> ZodPrimitive("string")]>>]))
  /\ UNCHANGED <<serInput, serText>>

InitNames == NamesInit /\ FilterIdle /\ ColumnIdle /\ ParseIdle /\ DbIdle /\ CliIdle /\ RunsIdle
NextNames ==
  \/ SerializeProperty /\ UNCHANGED <<filterVars, columnVars, parseVars, dbVars, cliVars, runVars>>
  \/ SerializeZodProperty /\ UNCHANGED <<filterVars, columnVars, parseVars, dbVars, cliVars, runVars>>
SpecNames == InitNames /\ [][NextNames]_vars

\* the name as a property's text holds it: from position `start` up to the
\* colon that follows the name
EmittedName(text, start) ==
  SubSeq(text, start, Min({k \in start..Len(text) : text[k] = ": "}) - 1)

\* a character of [A-Za-z0-9_$]
IsNameChar(c) == IsLetter(c) \/ IsDigit(c) \/ c \in {"_", "$"}

\* the three conditions: a reserved word, a leading digit, a character outside
\* [A-Za-z0-9_$]
MeetsQuotingCondition(name) ==
  \/ name \in RESERVED_WORDS
  \/ (name # <<>> /\ IsDigit(name[1]))
  \/ \E i \in 1..Len(name) : ~IsNameChar(name[i])

\* the emitted text is the name in single quotes, or the name itself
IsQuotedName(emitted, name) ==
  emitted # name /\ DenotedLiteral(emitted) = Some(name)

EmittedAsRequired(emitted, name, quoted) ==
  IF quoted THEN IsQuotedName(emitted, name) ELSE emitted = name

\* C26 (as claimed): either serializer emits a property name in quotes if and
\* only if the name is a reserved word, begins with a digit or holds a
\* character outside [A-Za-z0-9_$], and bare otherwise.
C26_QuotedIffThreeConditions ==
  LET name == Get(serInput)
  IN /\ IsDefined(serText) =>
          EmittedAsRequired(EmittedName(Get(serText), 2), name,
                            MeetsQuotingCondition(name))
     /\ IsDefined(serZodText) =>
          EmittedAsRequired(EmittedName(Get(serZodText), 4), name,
                            MeetsQuotingCondition(name))

\* C26: either serializer emits a property name in quotes if and only if the
\* name is a reserved word, begins with a digit, holds a character outside
\* [A-Za-z0-9_$] or is empty, and bare otherwise.
C26_QuotedIffNotIdentifier ==
  LET name == Get(serInput)
      quoted == MeetsQuotingCondition(name) \/ name = <<>>
  IN /\ IsDefined(serText) =>
          EmittedAsRequired(EmittedName(Get(serText), 2), name, quoted)
     /\ IsDefined(serZodText) =>
          EmittedAsRequired(EmittedName(Get(serZodText), 4), name, quoted)

\* a reserved word, or the empty name, has gone through both serializers and
\* stands in quotes in both texts
C26_Witness ==
  /\ serInput \in {Some(<<"c", "l", "a", "s", "s">>), Some(<<>>)}
  /\ IsDefined(serText) /\ IsDefined(serZodText)
  /\ IsQuotedName(EmittedName(Get(serText), 2), Get(serInput))
  /\ IsQuotedName(EmittedName(Get(serZodText), 4), Get(serInput))

-----------------------------------------------------------------------------
(* The order of tables and columns in the output (SpecDb) *)

\* the table interfaces of the returned Program, in its order: the
\* interfaces after the preamble and the enums, the DB interface left out
EmittedInterfaces ==
  SubSeq(declarations, Len(Preamble) + Len(metadata.enums) + 1, Len(declarations) - 1)

\* the position in metadata.tables of the table an interface was built from
SourceIndex(interface) ==
  CHOOSE k \in 1..Len(metadata.tables) :
    InterfaceName(metadata.tables[k]) = interface.name

\* a column's or table's name as the options have it emitted
EmittedAs(name) == IF camelCaseOption(dbOptions) THEN toCamelCase(name) ELSE name

\* the outline of a text: for each line that opens an interface the
\* interface's name, for each property line the property's name (what stands
\* before the question mark or the colon)
LineOutline(line) ==
  IF Len(line) >= 3 /\ line[1] = "export " /\ line[2] = "interface "
  THEN << <<"interface", SubSeq(line, 3, Len(line) - 1)>> >>
  ELSE IF Len(line) >= 2 /\ line[1] = "  "
  THEN << <<"property",
             SubSeq(line, 2, Min({k \in 2..Len(line) : line[k] \in {"?", ": "}}) - 1)>> >>
  ELSE <<>>

\* the line of a text that starts at position `start`
LineAt(text, start) ==
  SubSeq(text, start, Min({i \in start..Len(text) : text[i] = "\n"} \cup {Len(text) + 1}) - 1)

TextOutline(text) ==
  LET starts == {1} \cup {i + 1 : i \in {j \in 1..Len(text) : text[j] = "\n"}}
      marked == {p \in starts : LineOutline(LineAt(text, p)) # <<>>}
      nth(k) == CHOOSE p \in marked : Cardinality({q \in marked : q < p}) = k - 1
  IN [k \in 1..Cardinality(marked) |-> LineOutline(LineAt(text, nth(k)))[1]]

\* the outline of a list of declarations, read off the nodes
DeclarationOutline(d) ==
  IF d.kind = "interface"
  THEN << <<"interface", d.name>> >>
         \o [i \in 1..Len(d.properties) |-> <<"property", d.properties[i].name>>]
  ELSE <<>>

ProgramOutline(decls) == Flatten([i \in 1..Len(decls) |-> DeclarationOutline(decls[i])])

\* C27: the table interfaces of the returned Program follow the order of
\* their tables in metadata.tables, the DB interface's properties follow the
\* table interfaces one for one, each interface's properties are its table's
\* columns in order, and the serialized text holds the interfaces and their
\* properties in the Program's order.
C27_InputOrderKept ==
  /\ Returned =>
       LET emitted == EmittedInterfaces
           source == [i \in 1..Len(emitted) |-> SourceIndex(emitted[i])]
       IN /\ \A i, j \in 1..Len(emitted) : i < j => source[i] < source[j]
          /\ \A i \in 1..Len(emitted) :
               LET cols == metadata.tables[source[i]].columns
               IN [k \in 1..Len(emitted[i].properties) |-> emitted[i].properties[k].name]
                    = [k \in 1..Len(cols) |-> EmittedAs(cols[k].name)]
          /\ [i \in 1..Len(DbInterface.properties) |->
                <<DbInterface.properties[i].name, DbInterface.properties[i].type>>]
               = [i \in 1..Len(emitted) |->
                    <<EmittedAs(metadata.tables[source[i]].name),
                      Reference(emitted[i].name)>>]
  /\ (pc = "idle" /\ IsDefined(output)) =>
       TextOutline(Get(output)) = ProgramOutline(declarations)

\* two tables, the first with two columns, have been transformed and
\* serialized, the later of them in the alphabet first in the input
C27_Witness ==
  /\ pc = "idle" /\ IsDefined(output)
  /\ Len(EmittedInterfaces) = 2
  /\ Len(EmittedInterfaces[1].properties) = 2
  /\ EmittedInterfaces[1].name = <<"U", "s", "e", "r">>
  /\ EmittedInterfaces[2].name = <<"P", "o", "s", "t">>
  /\ DbInterface.properties[1].name = s_users

-----------------------------------------------------------------------------
(* transform/index: transformDatabase as one call *)

\* the loop over filteredTables, threading the run's unknownTypes set
RECURSIVE transformTablesFrom(_, _, _, _, _)
transformTablesFrom(tbls, i, enumList, opts, unknown) ==
  IF i > Len(tbls) THEN [interfaces |-> <<>>, unknownTypes |-> unknown]
  ELSE LET result == transformTable(tbls[i], enumList, opts, unknown)
           rest == transformTablesFrom(tbls, i + 1, enumList, opts, result.unknownTypes)
       IN [interfaces |-> <<result.interface>> \o rest.interfaces,
           unknownTypes |-> rest.unknownTypes]

transformDatabase(meta, opts) ==
  LET enumDeclarations == [i \in 1..Len(meta.enums) |-> transformEnum(meta.enums[i])]
      kept == filterTables(meta.tables, opts)
      result == transformTablesFrom(kept, 1, meta.enums, opts, newUnknownTypes)
  IN [program |->
        [declarations |->
           pushInterfaces(newDeclarations \o Preamble \o enumDeclarations,
                          result.interfaces, createDBInterface(kept, opts))],
      warnings |-> warningsOf(result.unknownTypes)]

-----------------------------------------------------------------------------
(* dialects/index: detectDialect, on the protocol of a connection URL *)

detectDialect(connectionString) ==
  CASE connectionString.protocol \in {"postgres", "postgresql"} -> Some("postgres")
    [] connectionString.protocol \in {"mysql", "mysql2"} -> Some("mysql")
    [] OTHER -> Undefined

-----------------------------------------------------------------------------
(* cli: generate *)

DialectNames == {"postgres", "mysql", "sqlite", "mssql"}

\* a mode that writes the file whatever the flags say
writesFileAlways(opts) == TRUE

\* if (printMode) process.stdout.write(code) else await writeFile(...)
writesFile(opts) == ~opts.print

\* the options transformDatabase is given by generate
transformOptions(opts) ==
  Some(Options(opts.camelCase,
               IF Len(opts.includePattern) > 0 THEN Some(opts.includePattern)
               ELSE Undefined,
               IF Len(opts.excludePattern) > 0 THEN Some(opts.excludePattern)
               ELSE Undefined))

\* const { program: astProgram } = transformDatabase(metadata, {...});
\* const code = serialize(astProgram): the program is built once, then
\* serialized
generatedCode(meta, opts) ==
  CHOOSE text \in {serialize(astProgram) :
                     astProgram \in {transformDatabase(meta, transformOptions(opts)).program}} :
    TRUE

\* process.exit(status), or the return of generate with status 0
Exit(status) == cliPc' = "exited" /\ exitStatus' = Some(status)

\* if (options.verify && options.print) process.exit(1)
CheckFlags ==
  /\ cliPc = "start"
  /\ IF cliOptions.verify /\ cliOptions.print THEN Exit(1)
     ELSE cliPc' = "url" /\ UNCHANGED exitStatus
  /\ UNCHANGED <<cliOptions, database, connected, code, outFile, stdout>>

\* if (!databaseUrl) process.exit(1)
CheckUrl ==
  /\ cliPc = "url"
  /\ IF ~IsDefined(cliOptions.url) THEN Exit(1)
     ELSE cliPc' = "dialect" /\ UNCHANGED exitStatus
  /\ UNCHANGED <<cliOptions, database, connected, code, outFile, stdout>>

\* the --dialect flag, or the dialect detected from the URL
ResolveDialect ==
  /\ cliPc = "dialect"
  /\ IF IsDefined(cliOptions.dialect)
     THEN IF Get(cliOptions.dialect) \notin DialectNames THEN Exit(1)
          ELSE cliPc' = "connect" /\ UNCHANGED exitStatus
     ELSE IF ~IsDefined(detectDialect(Get(cliOptions.url))) THEN Exit(1)
          ELSE cliPc' = "connect" /\ UNCHANGED exitStatus
  /\ UNCHANGED <<cliOptions, database, connected, code, outFile, stdout>>

\* new Kysely({ dialect }); a failure is thrown to the action's catch, which
\* exits with status 1
Connect ==
  /\ cliPc = "connect"
  /\ IF database.connects
     THEN connected' = TRUE /\ cliPc' = "introspect" /\ UNCHANGED exitStatus
     ELSE Exit(1) /\ UNCHANGED connected
  /\ UNCHANGED <<cliOptions, database, code, outFile, stdout>>

\* dialect.introspect, and the return when nothing was found
Introspect ==
  /\ cliPc = "introspect"
  /\ IF Len(database.metadata.tables) = 0 /\ Len(database.metadata.enums) = 0
     THEN Exit(0)
     ELSE cliPc' = "generate" /\ UNCHANGED exitStatus
  /\ UNCHANGED <<cliOptions, database, connected, code, outFile, stdout>>

\* transformDatabase and serialize
Generate ==
  /\ cliPc = "generate"
  /\ code' = Some(generatedCode(database.metadata, cliOptions))
  /\ cliPc' = IF cliOptions.verify THEN "verify" ELSE "emit"
  /\ UNCHANGED <<cliOptions, database, connected, outFile, stdout, exitStatus>>

\* if (options.verify) { readFile(...).catch(() => null) ... process.exit }
Verify ==
  /\ cliPc = "verify"
  /\ LET existing == outFile
     IN IF ~IsDefined(existing) THEN Exit(1)
        ELSE IF Get(existing) = Get(code) THEN Exit(0)
        ELSE Exit(1)
  /\ UNCHANGED <<cliOptions, database, connected, code, outFile, stdout>>

\* process.stdout.write(code) or writeFile(absolutePath, code), then the end
\* of generate
Emit ==
  /\ cliPc = "emit"
  /\ IF writesFile(cliOptions)
     THEN outFile' = code /\ UNCHANGED stdout
     ELSE stdout' = Get(code) /\ UNCHANGED outFile
  /\ Exit(0)
  /\ UNCHANGED <<cliOptions, database, connected, code>>

-----------------------------------------------------------------------------
(* Invocations of the command line, one after the other, on one output *)
(* path: SpecCli                                                       *)

Url(protocol) == [protocol |-> protocol]

CliOptions ==
  [print : BOOLEAN, verify : BOOLEAN,
   url : {Undefined, Some(Url("postgres")), Some(Url("ftp"))},
   dialect : {Undefined, Some("postgres"), Some("oracle")},
   camelCase : {FALSE},
   includePattern : {<<>>},
   excludePattern : {<<p_internal>>}]

CliMetadata ==
  { [tables |-> <<>>, enums |-> <<>>],
    [tables |-> << Table(s_public, s_users, FALSE, <<c_id, c_created_at>>) >>,
     enums |-> <<>>],
    [tables |-> << Table(s_public, s_users, FALSE, <<c_id, c_status>>),
                   Table(s_public, s_internal_logs, FALSE, <<c_id>>) >>,
     enums |-> <<e_status>>] }

CliDatabases == [connects : BOOLEAN, metadata : CliMetadata]

\* no invocation yet, and no file at the output path
CliInit ==
  /\ cliOptions = Undefined
  /\ database = Undefined
  /\ outFile = Undefined
  /\ cliPc = "idle"
  /\ connected = FALSE
  /\ code = Undefined
  /\ stdout = <<>>
  /\ exitStatus = Undefined

\* no invocation is running
AtPrompt == cliPc \in {"idle", "exited"}

\* the command is started with some flags against some database
StartGenerate ==
  /\ AtPrompt
  /\ cliOptions' \in CliOptions
  /\ database' \in CliDatabases
  /\ cliPc' = "start"
  /\ connected' = FALSE
  /\ code' = Undefined
  /\ stdout' = <<>>
  /\ exitStatus' = Undefined
  /\ UNCHANGED outFile

\* the text ends with an empty line
EndsWithEmptyLine(text) ==
  Len(text) >= 2 /\ text[Len(text)] = "\n" /\ text[Len(text) - 1] = "\n"

\* between invocations somebody appends a line break to the file
AppendLineBreak ==
  /\ AtPrompt
  /\ IsDefined(outFile)
  /\ ~EndsWithEmptyLine(Get(outFile))
  /\ outFile' = Some(Get(outFile) \o <<"\n">>)
  /\ cliPc' = "idle"
  /\ exitStatus' = Undefined
  /\ UNCHANGED <<cliOptions, database, connected, code, stdout>>

\* between invocations somebody deletes the file
DeleteFile ==
  /\ AtPrompt
  /\ IsDefined(outFile)
  /\ outFile' = Undefined
  /\ cliPc' = "idle"
  /\ exitStatus' = Undefined
  /\ UNCHANGED <<cliOptions, database, connected, code, stdout>>

InitCli == CliInit /\ FilterIdle /\ ColumnIdle /\ ParseIdle /\ DbIdle /\ SerializeIdle /\ RunsIdle
NextCli ==
  \/ StartGenerate /\ UNCHANGED <<filterVars, columnVars, parseVars, dbVars, serializeVars, runVars>>
  \/ CheckFlags /\ UNCHANGED <<filterVars, columnVars, parseVars, dbVars, serializeVars, runVars>>
  \/ CheckUrl /\ UNCHANGED <<filterVars, columnVars, parseVars, dbVars, serializeVars, runVars>>
  \/ ResolveDialect /\ UNCHANGED <<filterVars, columnVars, parseVars, dbVars, serializeVars, runVars>>
  \/ Connect /\ UNCHANGED <<filterVars, columnVars, parseVars, dbVars, serializeVars, runVars>>
  \/ Introspect /\ UNCHANGED <<filterVars, columnVars, parseVars, dbVars, serializeVars, runVars>>
  \/ Generate /\ UNCHANGED <<filterVars, columnVars, parseVars, dbVars, serializeVars, runVars>>
  \/ Verify /\ UNCHANGED <<filterVars, columnVars, parseVars, dbVars, serializeVars, runVars>>
  \/ Emit /\ UNCHANGED <<filterVars, columnVars, parseVars, dbVars, serializeVars, runVars>>
  \/ AppendLineBreak /\ UNCHANGED <<filterVars, columnVars, parseVars, dbVars, serializeVars, runVars>>
  \/ DeleteFile /\ UNCHANGED <<filterVars, columnVars, parseVars, dbVars, serializeVars, runVars>>
SpecCli == InitCli /\ [][NextCli]_vars

\* the process has ended
Exited == cliPc = "exited"

\* the output file exists and holds exactly the text this invocation generated
FileUpToDate == IsDefined(code) /\ IsDefined(outFile) /\ Get(outFile) = Get(code)

\* C28: an invocation with --verify (and without --print) that has ended has
\* exit status 0 exactly when the output file exists and its content equals
\* the freshly generated code, and status 1 otherwise, in particular when the
\* file is missing
C28_VerifyStatus ==
  (Exited /\ cliOptions.verify /\ ~cliOptions.print) =>
    /\ exitStatus \in {Some(0), Some(1)}
    /\ (exitStatus = Some(0)) <=> FileUpToDate
    /\ ~IsDefined(outFile) => exitStatus = Some(1)

\* a --verify invocation on a database without tables or enums that ended
\* with status 0 although the output file does not exist
VerifyPassedWithoutFile ==
  /\ Exited /\ cliOptions.verify /\ ~cliOptions.print
  /\ connected /\ ~IsDefined(outFile) /\ exitStatus = Some(0)

\* a step of a running invocation that creates or changes the file at the
\* output path
FileWritten == ~AtPrompt /\ outFile' # outFile

\* C30: with --print or --verify no step of generate creates or changes the
\* file at the output path; a step that writes it belongs to an invocation
\* with neither flag, comes after the code was generated, and writes that
\* code; and an invocation with both --verify and --print goes nowhere but
\* to exit status 1, without a connection, generated code or write
C30_FileWrittenOnlyInDefaultMode ==
  /\ [][FileWritten =>
          /\ ~cliOptions.print /\ ~cliOptions.verify
          /\ IsDefined(code) /\ outFile' = code]_vars
  /\ []((cliPc # "idle" /\ cliOptions.verify /\ cliOptions.print) =>
          /\ cliPc \in {"start", "exited"}
          /\ Exited => exitStatus = Some(1)
          /\ ~connected /\ ~IsDefined(code) /\ stdout = <<>>)

\* a --print invocation that generated its code, wrote it to the standard
\* output and ended, while the output path still holds no file
C30_Witness ==
  /\ Exited /\ cliOptions.print /\ ~cliOptions.verify
  /\ IsDefined(code) /\ stdout = Get(code) /\ exitStatus = Some(0)
  /\ ~IsDefined(outFile)

-----------------------------------------------------------------------------
(* Independent runs of transformDatabase and transformDatabaseToZod, their *)
(* steps interleaved: SpecRuns                                             *)

MaxConcurrentRuns == 2

\* an object that lives at module level: every `new` yields the same one
moduleLevelAddress(h) == 1

\* new Set<string>(), new EnumNameResolver(...): a fresh object
newAddress(h) == Len(h) + 1

\* the heap after the object at an address is created or replaced
Store(h, address, object) ==
  IF address > Len(h) THEN Append(h, object) ELSE [h EXCEPT ![address] = object]

SetObject(items) == [kind |-> "Set", value |-> items]
ResolverObject(enumList) == [kind |-> "EnumNameResolver", value |-> enumList]

m_users ==
  [tables |-> << Table(s_public, s_users, FALSE, <<c_id, c_geom>>) >>, enums |-> <<>>]
m_posts ==
  [tables |-> << Table(s_public, s_posts, FALSE, <<c_status, c_path>>),
                 Table(s_auth, s_sessions, FALSE, <<c_geom>>) >>,
   enums |-> <<e_auth_status, e_status>>]

RunInput(kind, meta) == [kind |-> kind, metadata |-> meta, options |-> Undefined]

RunInputs == {RunInput("types", m_users), RunInput("types", m_posts), RunInput("zod", m_posts)}

IdleFrame ==
  [pc |-> "idle", declarations |-> <<>>, unknownTypes |-> Undefined,
   enumResolver |-> Undefined, filteredTables |-> <<>>, tableInterfaces |-> <<>>,
   result |-> Undefined]

RunsInit ==
  /\ runInputs \in [1..MaxConcurrentRuns -> RunInputs]
  /\ frames = [r \in 1..MaxConcurrentRuns |-> IdleFrame]
  /\ heap = <<>>

\* transformDatabase, up to the resolver: the fresh locals and the preamble
RunStart(r) ==
  /\ frames[r].pc = "idle"
  /\ runInputs[r].kind = "types"
  /\ LET address == newAddress(heap)
     IN /\ heap' = Store(heap, address, SetObject(newUnknownTypes))
        /\ frames' = [frames EXCEPT ![r].pc = "enums",
                                    ![r].declarations = newDeclarations \o Preamble,
                                    ![r].unknownTypes = Some(address)]
  /\ UNCHANGED runInputs

\* new EnumNameResolver(metadata.enums), the enum loop and filterTables
RunEnums(r) ==
  /\ frames[r].pc = "enums"
  /\ runInputs[r].kind = "types"
  /\ LET address == newAddress(heap)
         meta == runInputs[r].metadata
     IN /\ heap' = Store(heap, address, ResolverObject(meta.enums))
        /\ frames' =
             [frames EXCEPT
                ![r].pc = "tables",
                ![r].enumResolver = Some(address),
                ![r].declarations =
                  @ \o [i \in 1..Len(meta.enums) |-> transformEnum(meta.enums[i])],
                ![r].filteredTables = filterTables(meta.tables, runInputs[r].options)]
  /\ UNCHANGED runInputs

\* one turn of the loop over filteredTables, on the run's own set
RunTable(r) ==
  /\ frames[r].pc = "tables"
  /\ runInputs[r].kind = "types"
  /\ Len(frames[r].tableInterfaces) < Len(frames[r].filteredTables)
  /\ LET address == Get(frames[r].unknownTypes)
         result ==
           transformTable(frames[r].filteredTables[Len(frames[r].tableInterfaces) + 1],
                          heap[Get(frames[r].enumResolver)].value,
                          runInputs[r].options, heap[address].value)
     IN /\ heap' = Store(heap, address, SetObject(result.unknownTypes))
        /\ frames' = [frames EXCEPT ![r].tableInterfaces = Append(@, result.interface)]
  /\ UNCHANGED runInputs

\* the table interfaces, the DB interface, the warnings and the return
RunFinish(r) ==
  /\ frames[r].pc = "tables"
  /\ runInputs[r].kind = "types"
  /\ Len(frames[r].tableInterfaces) = Len(frames[r].filteredTables)
  /\ frames' =
       [frames EXCEPT
          ![r].pc = "returned",
          ![r].result =
            Some([program |->
                    [declarations |->
                       pushInterfaces(frames[r].declarations, frames[r].tableInterfaces,
                                      createDBInterface(frames[r].filteredTables,
                                                        runInputs[r].options))],
                  warnings |-> warningsOf(heap[Get(frames[r].unknownTypes)].value)])]
  /\ UNCHANGED <<runInputs, heap>>

\* transformDatabaseToZod, up to the enum loop: the declarations, the import
\* and the resolver
ZodStart(r) ==
  /\ frames[r].pc = "idle"
  /\ runInputs[r].kind = "zod"
  /\ LET address == newAddress(heap)
     IN /\ heap' = Store(heap, address, ResolverObject(runInputs[r].metadata.enums))
        /\ frames' = [frames EXCEPT ![r].pc = "enums",
                                    ![r].declarations = <<[kind |-> "zod-import"]>>,
                                    ![r].enumResolver = Some(address)]
  /\ UNCHANGED runInputs

\* for (const enumMeta of metadata.enums) declarations.push(...)
ZodEnums(r) ==
  /\ frames[r].pc = "enums"
  /\ runInputs[r].kind = "zod"
  /\ LET enumList == heap[Get(frames[r].enumResolver)].value
     IN frames' =
          [frames EXCEPT
             ![r].pc = "tables",
             ![r].filteredTables = runInputs[r].metadata.tables,
             ![r].declarations =
               @ \o [i \in 1..Len(enumList) |-> transformEnumToZod(enumList[i])]]
  /\ UNCHANGED <<runInputs, heap>>

\* one turn of the loop over metadata.tables: three schemas, three exports
ZodTable(r) ==
  /\ frames[r].pc = "tables"
  /\ runInputs[r].kind = "zod"
  /\ Len(frames[r].tableInterfaces) < Len(frames[r].filteredTables)
  /\ LET table == frames[r].filteredTables[Len(frames[r].tableInterfaces) + 1]
         pushed == zodTableDeclarations(table, heap[Get(frames[r].enumResolver)].value,
                                        runInputs[r].options)
     IN frames' = [frames EXCEPT ![r].declarations = @ \o pushed,
                                 ![r].tableInterfaces = Append(@, table.name)]
  /\ UNCHANGED <<runInputs, heap>>

\* return { declarations }
ZodFinish(r) ==
  /\ frames[r].pc = "tables"
  /\ runInputs[r].kind = "zod"
  /\ Len(frames[r].tableInterfaces) = Len(frames[r].filteredTables)
  /\ frames' = [frames EXCEPT ![r].pc = "returned",
                              ![r].result =
                                Some([declarations |-> frames[r].declarations])]
  /\ UNCHANGED <<runInputs, heap>>

InitRuns == RunsInit /\ FilterIdle /\ ColumnIdle /\ ParseIdle /\ DbIdle /\ SerializeIdle /\ CliIdle
NextRuns ==
  \/ (\E r \in 1..MaxConcurrentRuns : RunStart(r)) /\ UNCHANGED <<filterVars, columnVars, parseVars, dbVars, serializeVars, cliVars>>
  \/ (\E r \in 1..MaxConcurrentRuns : RunEnums(r)) /\ UNCHANGED <<filterVars, columnVars, parseVars, dbVars, serializeVars, cliVars>>
  \/ (\E r \in 1..MaxConcurrentRuns : RunTable(r)) /\ UNCHANGED <<filterVars, columnVars, parseVars, dbVars, serializeVars, cliVars>>
  \/ (\E r \in 1..MaxConcurrentRuns : RunFinish(r)) /\ UNCHANGED <<filterVars, columnVars, parseVars, dbVars, serializeVars, cliVars>>
  \/ (\E r \in 1..MaxConcurrentRuns : ZodStart(r)) /\ UNCHANGED <<filterVars, columnVars, parseVars, dbVars, serializeVars, cliVars>>
  \/ (\E r \in 1..MaxConcurrentRuns : ZodEnums(r)) /\ UNCHANGED <<filterVars, columnVars, parseVars, dbVars, serializeVars, cliVars>>
  \/ (\E r \in 1..MaxConcurrentRuns : ZodTable(r)) /\ UNCHANGED <<filterVars, columnVars, parseVars, dbVars, serializeVars, cliVars>>
  \/ (\E r \in 1..MaxConcurrentRuns : ZodFinish(r)) /\ UNCHANGED <<filterVars, columnVars, parseVars, dbVars, serializeVars, cliVars>>
SpecRuns == InitRuns /\ [][NextRuns]_vars

\* what a run produces when it is the only one
Alone(input) ==
  IF input.kind = "types" THEN transformDatabase(input.metadata, input.options)
  ELSE transformDatabaseToZod(input.metadata, input.options)

\* the objects a run holds
ObjectsOf(r) == Range(frames[r].unknownTypes) \cup Range(frames[r].enumResolver)

\* C29: whatever the interleaving, a run that has returned returned what it
\* returns alone (Program and warnings), and no Set or EnumNameResolver is
\* held by two runs
C29_RunsIndependent ==
  /\ \A r \in DOMAIN frames :
       frames[r].pc = "returned" => Get(frames[r].result) = Alone(runInputs[r])
  /\ \A r, s \in DOMAIN frames : r # s => ObjectsOf(r) \cap ObjectsOf(s) = {}

\* two runs of transformDatabase on different databases that overlapped (the
\* second allocated its set before the first created its resolver) and both
\* returned, with different, non-empty warnings
C29_Witness ==
  /\ DOMAIN frames # {}
  /\ frames[1].pc = "returned" /\ frames[2].pc = "returned"
  /\ runInputs[1].kind = "types" /\ runInputs[2].kind = "types"
  /\ frames[1].unknownTypes = Some(1) /\ frames[2].unknownTypes = Some(2)
  /\ frames[1].enumResolver = Some(3)
  /\ Get(frames[1].result).warnings # <<>>
  /\ Get(frames[2].result).warnings # <<>>
  /\ Get(frames[1].result).warnings # Get(frames[2].result).warnings

====
